---- MODULE Spec2Model ----
(***************************************************************************)
(* A model of MM_StoryAgent's orchestration core:                          *)
(*   - MMStoryAgent.generate_modality_assets (mm_story_agent.py): the      *)
(*     fan-out of one worker process per enabled modality, the join, the   *)
(*     merge of the image prompts and the write of script_data.json;       *)
(*   - the text-generation client's validated generate call (the backend   *)
(*     is not part of the sources: modelled from its specification);       *)
(*   - QAOutlineStoryWriter.generate_story_from_outline (story_agent.py):  *)
(*     the per-chapter retry loop and the placeholder pages.               *)
(*                                                                         *)
(* Python values.  A str that the code inspects (a page, a chapter title)  *)
(* is a sequence of one-character strings; a dict is a function whose      *)
(* domain is its key set; a list is a sequence.  Non-ASCII literals of the *)
(* source are written as ASCII tokens, the original given in a comment.    *)
(***************************************************************************)
EXTENDS Integers, Sequences, FiniteSets, TLC

VARIABLES
    \* ---- MMStoryAgent.generate_modality_assets ----
    config,              \* the run configuration (a dict)
    pages,               \* the Page sequence handed to the function
    pc,                  \* position of the driver inside the function
    i,                   \* index of the driver's current for-loop
    dirs,                \* sub-directories created under story_dir
    script_data,         \* script_data["pages"]
    agents,              \* dict modality -> producer instance
    params,              \* dict modality -> parameter mapping of the task
    enabled_modalities,  \* list of the enabled modalities
    processes,           \* list of the started processes (by modality)
    wstate,              \* per worker process: its life cycle
    wresult,             \* per worker process: local variable result
    return_dict,         \* the Manager dict: list of <<key, value>> items
    writeLog,            \* history: every write into return_dict
    items,               \* the list return_dict.items() read after the join
    images,              \* local variable images
    manifest,            \* the file story_dir/script_data.json
    trace,               \* history: the stage events of the run, in order
    params_obj,          \* which mapping object each params block is and each task was handed
    video_calls,         \* the parameter mappings video composition got
    \* ---- validated generation client ----
    cl_P, cl_R, cl_backend, cl_calls, cl_result, cl_pc,
    \* ---- generate_story_from_outline ----
    outline, all_pages, idx, retry_count, success, chapter_detail,
    st_pc, st_calls,
    data_summary,        \* generate_outline: the summary it was given
    ol_call,             \* history: what the outline request reported
    st_appended,         \* history: the pages appended, chapter by chapter
    \* ---- json_parse_outline ----
    po_text, po_result,
    \* ---- CosyVoiceAgent.call ----
    sp_pages,            \* params["pages"]
    sp_idx,              \* idx of the loop over the pages
    sp_endpoint,         \* position in the endpoints list
    sp_files,            \* file name -> its size is greater than 0
    sp_last_error,       \* last_error is set
    sp_inflight,         \* files whose writer a started sdk still holds
    sp_calls,            \* history: the synthesis attempts
    sp_result,           \* the dict returned
    sp_pc

gmaVars == <<config, pages, pc, i, dirs, script_data, agents, params,
             enabled_modalities, processes, wstate, wresult, return_dict,
             writeLog, items, images, manifest, trace, params_obj,
             video_calls>>
clVars == <<cl_P, cl_R, cl_backend, cl_calls, cl_result, cl_pc>>
stVars == <<outline, all_pages, idx, retry_count, success, chapter_detail,
            st_pc, st_calls, data_summary, ol_call, st_appended>>
poVars == <<po_text, po_result>>
spVars == <<sp_pages, sp_idx, sp_endpoint, sp_files, sp_last_error, sp_inflight,
            sp_calls, sp_result, sp_pc>>
vars == <<gmaVars, clVars, stVars, poVars, spVars>>

(***************************************************************************)
(* Bounds of the model.                                                    *)
(***************************************************************************)
MaxPages == 2
MaxRetryCeiling == 2
MaxChapters == 2

Min(a, b) == IF a <= b THEN a ELSE b

RECURSIVE SeqsUpTo(_, _)
SeqsUpTo(S, n) ==
    IF n = 0 THEN {<<>>}
    ELSE LET shorter == SeqsUpTo(S, n - 1)
         IN shorter \cup {Append(s, x) : s \in {t \in shorter : Len(t) = n - 1}, x \in S}

Range(s) == {s[k] : k \in DOMAIN s}

(***************************************************************************)
(* Python dict operations.                                                 *)
(***************************************************************************)
\* d.get(key, default)
DictGet(d, key, default) == IF key \in DOMAIN d THEN d[key] ELSE default

\* d.update(e): the keys of e override those of d
DictUpdate(d, e) ==
    [k \in (DOMAIN d) \cup (DOMAIN e) |-> IF k \in DOMAIN e THEN e[k] ELSE d[k]]

\* return_dict is a Manager dict; a dict keeps insertion order, so it is a
\* list of <<key, value>> items.  d[key] = value replaces the value of an
\* existing key in place and appends a new key at the end.
ItemKeys(d) == {d[k][1] : k \in DOMAIN d}
ItemValue(d, key) == d[CHOOSE k \in DOMAIN d : d[k][1] = key][2]
ItemSet(d, key, value) ==
    IF key \in ItemKeys(d)
    THEN [k \in DOMAIN d |-> IF d[k][1] = key THEN <<key, value>> ELSE d[k]]
    ELSE Append(d, <<key, value>>)

(***************************************************************************)
(* The run configuration and the producers.                                *)
(***************************************************************************)
\* self.modalities
Modalities == <<"image", "speech">>
ModalitySet == Range(Modalities)

\* f"enable_{modality}" and modality + "_generation"
EnableKey(m) == IF m = "image" THEN "enable_image" ELSE "enable_speech"
GenerationKey(m) == IF m = "image" THEN "image_generation" ELSE "speech_generation"

\* Tool names known to the registry behind init_tool_instance.
RegisteredTools ==
    {"image_tool", "cosyvoice_tts", "qa_outline_story_writer",
     "data_driven_story_writer", "video_tool"}

\* init_tool_instance(cfg) returns an instance for a registered name and
\* raises for any other.
InitToolInstanceNeverRaises(cfg) == TRUE
InitToolInstanceOk(cfg) == cfg["tool"] \in RegisteredTools
InitToolInstance(cfg) == [tool |-> cfg["tool"], cfg |-> cfg["cfg"]]

\* config.get(f"enable_{modality}", True)
IsEnabledIgnoringFlag(cfg, m) == TRUE
IsEnabled(cfg, m) == DictGet(cfg, EnableKey(m), TRUE)

\* story_dir / modality
SubDir(story_dir, m) == <<story_dir, m>>

\* params[modality] = config[...]["params"].copy(); params[modality].update(...)
Injected(cfg, m, pgs) == [pages |-> pgs, save_path |-> SubDir(cfg["story_dir"], m)]
TaskParams(cfg, m, pgs) == DictUpdate(cfg[GenerationKey(m)]["params"], Injected(cfg, m, pgs))

\* Mapping objects.  Every params block of the configuration is a mapping
\* object, and two blocks can be one and the same object (a configuration
\* built with a shared dict, or loaded from a file with an alias).  objs
\* gives, for each block key and each task, the object it is:
\* <<"config", key>> is an object of the configuration, <<"copy", n>> the
\* n-th mapping a .copy() call returned.
ParamsBlocks == {"image_generation", "speech_generation", "video_compose"}
TaskNames == {"image", "speech", "video"}

\* The objects the params blocks of a configuration can be: each block its
\* own object, or the image and speech blocks one object (their entries
\* are then the same).
ConfigObjects(cfg) ==
    LET own == [b \in ParamsBlocks \cap DOMAIN cfg |-> <<"config", b>>]
    IN  {own} \cup
        (IF cfg["image_generation"]["params"] = cfg["speech_generation"]["params"]
         THEN {[own EXCEPT !["image_generation"] = own["speech_generation"]]}
         ELSE {})

\* dict.copy() returns a mapping that did not exist before.
NewMapping(objs) ==
    <<"copy", Cardinality({t \in DOMAIN objs : objs[t][1] = "copy"}) + 1>>

\* params[modality] = config[...]["params"].copy() (line 41)
ParamsObjectAliased(m, objs) == objs[GenerationKey(m)]
ParamsObject(m, objs) == NewMapping(objs)

\* obj.update(entries) or obj[key] = value changes the mapping obj: every
\* params block of the configuration that is this object shows the entries,
\* and no block does when obj is a copy.
ConfigAfterUpdate(cfg, objs, obj, entries) ==
    [b \in DOMAIN cfg |->
        IF b \in ParamsBlocks /\ objs[b] = obj
        THEN [cfg[b] EXCEPT !["params"] = DictUpdate(@, entries)]
        ELSE cfg[b]]

\* params[modality] = obj, whose entries are now content: every task that
\* was handed this object shows them too.
ParamsAfterUpdate(prm, objs, m, obj, content) ==
    [t \in DOMAIN prm \cup {m} |->
        IF t = m \/ objs[t] = obj THEN content ELSE prm[t]]

\* Page values: a str is the sequence of its characters, a bytes value the
\* sequence of its characters after the marker "BYTES" (the writer can
\* hand on either, see WriterPages).
IsBytes(e) == e # <<>> /\ Head(e) = "BYTES"
PageTexts == {<<"a">>, <<" ", "b", " ">>, <<"BYTES", "q">>}

\* json.dumps({..., "completed_story": all_pages}) (story_agent.py, lines
\* 148 and 165) raises TypeError when a page is not a str.
Serializable(pgs) == \A k \in DOMAIN pgs : ~IsBytes(pgs[k])
PageSeqs == SeqsUpTo(PageTexts, MaxPages)

\* The enable flags present in a configuration: each absent, true or false.
FlagSettings ==
    UNION {[S -> BOOLEAN] : S \in SUBSET {EnableKey(m) : m \in ModalitySet}}

GenerationConfigs ==
    {[image_generation |-> [tool |-> ti, cfg |-> [k \in {} |-> 0],
                            params |-> pi],
      speech_generation |-> [tool |-> ts, cfg |-> [sample_rate |-> 16000],
                             params |-> [voice |-> "xiaoyun"]],
      story_dir |-> "story"] :
        ti \in {"image_tool", "unknown_tool"},
        pi \in {[style |-> "flat"], [voice |-> "xiaoyun"]},
        ts \in {"cosyvoice_tts", "unknown_tool"}}

Configs == {DictUpdate(g, f) : g \in GenerationConfigs, f \in FlagSettings}

(***************************************************************************)
(* What a producer call can return.  The image producer is an external     *)
(* capability: its result is any of the shapes below.  The speech producer *)
(* returns one of the two dicts of CosyVoiceAgent.call.                    *)
(***************************************************************************)
ImageAt(k) == <<"image", k>>
PromptAt(k) == <<"prompt", k>>
\* A result that is not a mapping (None, a number, a str, a list):
\* result["generation_results"] raises TypeError on it.
NotAMapping == [py_not_a_mapping |-> TRUE]
IsMapping(r) == "py_not_a_mapping" \notin DOMAIN r

ImageResults(pgs) ==
    LET n == Len(pgs)
        gen == [k \in 1..n |-> ImageAt(k)]
        prm(len) == [k \in 1..len |-> PromptAt(k)]
    IN  {[generation_results |-> gen, prompts |-> prm(len)] :
             len \in {l \in {n - 1, n, n + 1} : l >= 0}}
        \cup {[generation_results |-> gen],
              [prompts |-> prm(n)],
              [modality |-> "image"],
              NotAMapping}

SpeechResults(pgs) ==
    {[modality |-> "speech", status |-> "success", generated_files |-> Len(pgs),
      tts_type |-> "standard", voice |-> "xiaoyun"],
     [modality |-> "speech", status |-> "failed", error |-> "synthesis failed"]}

ProducerResults(m, prm) ==
    IF m = "image" THEN ImageResults(prm["pages"]) ELSE SpeechResults(prm["pages"])

(***************************************************************************)
(* MMStoryAgent.generate_modality_assets, the driver.                      *)
(*   pc: entry -> setup -> launch -> join -> read -> merge -> write -> done *)
(*   or raised, when init_tool_instance raises, or write_raised, when      *)
(*   json.dump raises.                                                     *)
(***************************************************************************)
NoDict == [k \in {} |-> 0]
Terminated == {"exited", "faulted"}

AssetsInit ==
    /\ config \in Configs
    /\ pages \in PageSeqs
    /\ pc = "entry"
    /\ i = 0
    /\ dirs = {}
    /\ script_data = <<>>
    /\ agents = NoDict
    /\ params = NoDict
    /\ enabled_modalities = <<>>
    /\ processes = <<>>
    /\ wstate = [m \in ModalitySet |-> "unstarted"]
    /\ wresult = NoDict
    /\ return_dict = <<>>
    /\ writeLog = <<>>
    /\ items = <<>>
    /\ images = <<>>
    /\ manifest = [exists |-> FALSE]
    /\ trace = <<>>
    /\ params_obj \in ConfigObjects(config)
    /\ video_calls = <<>>

\* script_data = {"pages": [{"story": page} for page in pages]}
InitialScript(pgs) == [k \in 1..Len(pgs) |-> [story |-> pgs[k]]]

\* Lines 27-35: the script, the sub-directories, the empty dicts.
Entry ==
    /\ pc = "entry"
    /\ script_data' = InitialScript(pages)
    /\ dirs' = {SubDir(config["story_dir"], Modalities[k]) : k \in DOMAIN Modalities}
    /\ pc' = "setup"
    /\ i' = 1
    /\ UNCHANGED <<trace, params_obj, video_calls>>
    /\ UNCHANGED <<config, pages, agents, params, enabled_modalities, processes,
                   wstate, wresult, return_dict, writeLog, items, images, manifest>>

\* Lines 38-48: one iteration of the loop over self.modalities.
SetupModality ==
    /\ pc = "setup"
    /\ i <= Len(Modalities)
    /\ LET m == Modalities[i]
       IN  IF IsEnabled(config, m)
           THEN /\ trace' = Append(trace, [ev |-> "construct", m |-> m])
                /\ IF InitToolInstanceOk(config[GenerationKey(m)])
                   THEN /\ agents' = DictUpdate(agents,
                               [k \in {m} |-> InitToolInstance(config[GenerationKey(m)])])
                        /\ params' = ParamsAfterUpdate(params, params_obj, m,
                               ParamsObject(m, params_obj),
                               TaskParams(config, m, pages))
                        /\ params_obj' = DictUpdate(params_obj,
                               [k \in {m} |-> ParamsObject(m, params_obj)])
                        /\ config' = ConfigAfterUpdate(config, params_obj,
                                                       ParamsObject(m, params_obj),
                                                       Injected(config, m, pages))
                        /\ enabled_modalities' = Append(enabled_modalities, m)
                        /\ i' = i + 1
                        /\ pc' = pc
                   ELSE /\ pc' = "raised"
                        /\ UNCHANGED <<config, agents, params, params_obj,
                                       enabled_modalities, i>>
           ELSE /\ i' = i + 1
                /\ UNCHANGED <<config, agents, params, params_obj,
                               enabled_modalities, pc, trace>>
    /\ UNCHANGED <<pages, dirs, script_data, processes, wstate, wresult,
                   return_dict, writeLog, items, images, manifest, video_calls>>

\* Lines 50-51: processes = [], return_dict = mp.Manager().dict().
SetupDone ==
    /\ pc = "setup"
    /\ i > Len(Modalities)
    /\ processes' = <<>>
    /\ return_dict' = <<>>
    /\ pc' = "launch"
    /\ i' = 1
    /\ UNCHANGED <<trace, params_obj, video_calls>>
    /\ UNCHANGED <<config, pages, dirs, script_data, agents, params,
                   enabled_modalities, wstate, wresult, writeLog, items, images,
                   manifest>>

\* Lines 54-64: p = mp.Process(...); processes.append(p); p.start().
LaunchWorker ==
    /\ pc = "launch"
    /\ i <= Len(enabled_modalities)
    /\ LET m == enabled_modalities[i]
       IN  /\ processes' = Append(processes, m)
           /\ trace' = Append(trace, [ev |-> "start", m |-> m])
           /\ wstate' = [wstate EXCEPT ![m] = "running"]
    /\ i' = i + 1
    /\ UNCHANGED <<params_obj, video_calls>>
    /\ UNCHANGED <<config, pages, pc, dirs, script_data, agents, params,
                   enabled_modalities, wresult, return_dict, writeLog, items,
                   images, manifest>>

LaunchDone ==
    /\ pc = "launch"
    /\ i > Len(enabled_modalities)
    /\ pc' = "join"
    /\ i' = 1
    /\ UNCHANGED <<trace, params_obj, video_calls>>
    /\ UNCHANGED <<config, pages, dirs, script_data, agents, params,
                   enabled_modalities, processes, wstate, wresult, return_dict,
                   writeLog, items, images, manifest>>

\* p.join() returns once process p has terminated, however it ended.
JoinReturnsAtOnce(ws, m) == TRUE
JoinReturns(ws, m) == ws[m] \in Terminated

\* Lines 66-67: one p.join().
JoinWorker ==
    /\ pc = "join"
    /\ i <= Len(processes)
    /\ JoinReturns(wstate, processes[i])
    /\ i' = i + 1
    /\ UNCHANGED <<trace, params_obj, video_calls>>
    /\ UNCHANGED <<config, pages, pc, dirs, script_data, agents, params,
                   enabled_modalities, processes, wstate, wresult, return_dict,
                   writeLog, items, images, manifest>>

JoinDone ==
    /\ pc = "join"
    /\ i > Len(processes)
    /\ pc' = "read"
    /\ UNCHANGED <<trace, params_obj, video_calls>>
    /\ UNCHANGED <<config, pages, i, dirs, script_data, agents, params,
                   enabled_modalities, processes, wstate, wresult, return_dict,
                   writeLog, items, images, manifest>>

\* Lines 69-70: images = []; the list return_dict.items() is fetched.
ReadResults ==
    /\ pc = "read"
    /\ images' = <<>>
    /\ items' = return_dict
    /\ pc' = "merge"
    /\ i' = 1
    /\ UNCHANGED <<trace, params_obj, video_calls>>
    /\ UNCHANGED <<config, pages, dirs, script_data, agents, params,
                   enabled_modalities, processes, wstate, wresult, return_dict,
                   writeLog, manifest>>

\* Line 73 succeeds: result is a mapping with key generation_results.
HasGenerationResults(modality, result) ==
    /\ modality = "image"
    /\ IsMapping(result)
    /\ "generation_results" \in DOMAIN result

\* Line 73: images = result["generation_results"] (kept when it raises).
MergedImagesLastItemWins(imgs, modality, result) ==
    IF HasGenerationResults(modality, result)
    THEN result["generation_results"]
    ELSE <<>>
MergedImages(imgs, modality, result) ==
    IF HasGenerationResults(modality, result)
    THEN result["generation_results"]
    ELSE imgs

\* Lines 74-75: the number of pages given an image_prompt before the loop
\* ends or result["prompts"][idx] raises KeyError or IndexError.
PromptsMerged(modality, result, pgs) ==
    IF HasGenerationResults(modality, result) /\ "prompts" \in DOMAIN result
    THEN Min(Len(pgs), Len(result["prompts"]))
    ELSE 0

\* result["prompts"][idx]
PromptOfPreviousPage(result, k) == result["prompts"][IF k > 1 THEN k - 1 ELSE k]
PromptOf(result, k) == result["prompts"][k]

\* Line 75: script_data["pages"][idx]["image_prompt"] = result["prompts"][idx]
MergedScript(script, modality, result, pgs) ==
    [k \in 1..Len(script) |->
        IF k <= PromptsMerged(modality, result, pgs)
        THEN DictUpdate(script[k], [image_prompt |-> PromptOf(result, k)])
        ELSE script[k]]

\* Lines 70-77: one iteration of the loop over the items, try/except included.
MergeItem ==
    /\ pc = "merge"
    /\ i <= Len(items)
    /\ LET modality == items[i][1]
           result == items[i][2]
       IN  /\ images' = MergedImages(images, modality, result)
           /\ script_data' = MergedScript(script_data, modality, result, pages)
    /\ i' = i + 1
    /\ UNCHANGED <<trace, params_obj, video_calls>>
    /\ UNCHANGED <<config, pages, pc, dirs, agents, params, enabled_modalities,
                   processes, wstate, wresult, return_dict, writeLog, items,
                   manifest>>

MergeDone ==
    /\ pc = "merge"
    /\ i > Len(items)
    /\ pc' = "write"
    /\ UNCHANGED <<trace, params_obj, video_calls>>
    /\ UNCHANGED <<config, pages, i, dirs, script_data, agents, params,
                   enabled_modalities, processes, wstate, wresult, return_dict,
                   writeLog, items, images, manifest>>

\* json.dump(script_data, writer, ...) (line 80) raises TypeError when the
\* story of an entry is not a str.
ManifestSerializable(script) == \A k \in DOMAIN script : ~IsBytes(script[k]["story"])

\* The encoder streams: when it raises, the file holds the entries that come
\* before the first one it cannot encode (and the unfinished beginning of
\* that one, which is no entry).
WrittenBeforeFailure(script) ==
    LET bad == {k \in DOMAIN script : IsBytes(script[k]["story"])}
        first == CHOOSE k \in bad : \A j \in bad : k <= j
    IN  SubSeq(script, 1, first - 1)

\* Lines 79-82: json.dump(script_data, ...); return images.
WriteManifest ==
    /\ pc = "write"
    /\ ManifestSerializable(script_data)
    /\ manifest' = [exists |-> TRUE, complete |-> TRUE, pages |-> script_data]
    /\ trace' = Append(trace, [ev |-> "manifest", m |-> "-"])
    /\ pc' = "done"
    /\ UNCHANGED <<params_obj, video_calls>>
    /\ UNCHANGED <<config, pages, i, dirs, script_data, agents, params,
                   enabled_modalities, processes, wstate, wresult, return_dict,
                   writeLog, items, images>>

\* Lines 79-80: open(...) creates the file, json.dump raises TypeError, no
\* handler is around it: the exception leaves generate_modality_assets with
\* the file truncated and nothing returned.
WriteManifestRaises ==
    /\ pc = "write"
    /\ ~ManifestSerializable(script_data)
    /\ manifest' = [exists |-> TRUE, complete |-> FALSE,
                    pages |-> WrittenBeforeFailure(script_data)]
    /\ trace' = Append(trace, [ev |-> "manifest_TypeError", m |-> "-"])
    /\ pc' = "write_raised"
    /\ UNCHANGED <<params_obj, video_calls>>
    /\ UNCHANGED <<config, pages, i, dirs, script_data, agents, params,
                   enabled_modalities, processes, wstate, wresult, return_dict,
                   writeLog, items, images>>

(***************************************************************************)
(* MMStoryAgent.call_modality_agent, the body of a worker process.         *)
(*   wstate: unstarted -> running -> returned -> exited, or -> faulted     *)
(***************************************************************************)
\* Line 17: result = agent.call(params) returns.
WorkerCallReturns(m) ==
    /\ wstate[m] = "running"
    /\ \E r \in ProducerResults(m, params[m]) :
           wresult' = DictUpdate(wresult, [k \in {m} |-> r])
    /\ wstate' = [wstate EXCEPT ![m] = "returned"]
    /\ UNCHANGED <<trace, params_obj, video_calls>>
    /\ UNCHANGED <<config, pages, pc, i, dirs, script_data, agents, params,
                   enabled_modalities, processes, return_dict, writeLog, items,
                   images, manifest>>

\* An exception leaving the target ends the process that raised it.
FaultEndsAllWorkers(ws, m) ==
    [x \in DOMAIN ws |-> IF ws[x] \in {"running", "returned"} THEN "faulted" ELSE ws[x]]
FaultEnds(ws, m) == [ws EXCEPT ![m] = "faulted"]

\* Line 17: agent.call(params) raises; nothing catches it in the worker.
WorkerCallRaises(m) ==
    /\ wstate[m] = "running"
    /\ wstate' = FaultEnds(wstate, m)
    /\ UNCHANGED <<trace, params_obj, video_calls>>
    /\ UNCHANGED <<config, pages, pc, i, dirs, script_data, agents, params,
                   enabled_modalities, processes, wresult, return_dict, writeLog,
                   items, images, manifest>>

\* Line 18: return_dict[modality] = result, then the process exits.
WorkerStore(m) ==
    /\ wstate[m] = "returned"
    /\ return_dict' = ItemSet(return_dict, m, wresult[m])
    /\ writeLog' = Append(writeLog, [worker |-> m, key |-> m])
    /\ wstate' = [wstate EXCEPT ![m] = "exited"]
    /\ UNCHANGED <<trace, params_obj, video_calls>>
    /\ UNCHANGED <<config, pages, pc, i, dirs, script_data, agents, params,
                   enabled_modalities, processes, wresult, items, images,
                   manifest>>

ClientIdle ==
    /\ cl_P = {} /\ cl_R = 0 /\ cl_backend = <<>> /\ cl_calls = 0
    /\ cl_result = NoDict /\ cl_pc = "idle"

StoryIdle ==
    /\ outline = NoDict /\ all_pages = <<>> /\ idx = 0 /\ retry_count = 0
    /\ success = FALSE /\ chapter_detail = NoDict /\ st_pc = "idle"
    /\ st_calls = <<>>
    /\ data_summary = NoDict /\ ol_call = "none" /\ st_appended = <<>>

ParseIdle == po_text = NoDict /\ po_result = "idle"

SpeechIdle ==
    /\ sp_pages = <<>> /\ sp_idx = 0 /\ sp_endpoint = 0 /\ sp_files = NoDict
    /\ sp_last_error = FALSE /\ sp_calls = <<>> /\ sp_result = NoDict
    /\ sp_inflight = {}
    /\ sp_pc = "idle"

Init == AssetsInit /\ ClientIdle /\ StoryIdle /\ ParseIdle /\ SpeechIdle

Next ==
    \/ (Entry /\ UNCHANGED <<clVars, stVars, poVars, spVars>>)
    \/ (SetupModality /\ UNCHANGED <<clVars, stVars, poVars, spVars>>)
    \/ (SetupDone /\ UNCHANGED <<clVars, stVars, poVars, spVars>>)
    \/ (LaunchWorker /\ UNCHANGED <<clVars, stVars, poVars, spVars>>)
    \/ (LaunchDone /\ UNCHANGED <<clVars, stVars, poVars, spVars>>)
    \/ (JoinWorker /\ UNCHANGED <<clVars, stVars, poVars, spVars>>)
    \/ (JoinDone /\ UNCHANGED <<clVars, stVars, poVars, spVars>>)
    \/ (ReadResults /\ UNCHANGED <<clVars, stVars, poVars, spVars>>)
    \/ (MergeItem /\ UNCHANGED <<clVars, stVars, poVars, spVars>>)
    \/ (MergeDone /\ UNCHANGED <<clVars, stVars, poVars, spVars>>)
    \/ (WriteManifest /\ UNCHANGED <<clVars, stVars, poVars, spVars>>)
    \/ (WriteManifestRaises /\ UNCHANGED <<clVars, stVars, poVars, spVars>>)
    \/ (\E m \in ModalitySet : WorkerCallReturns(m) /\ UNCHANGED <<clVars, stVars, poVars, spVars>>)
    \/ (\E m \in ModalitySet : WorkerCallRaises(m) /\ UNCHANGED <<clVars, stVars, poVars, spVars>>)
    \/ (\E m \in ModalitySet : WorkerStore(m) /\ UNCHANGED <<clVars, stVars, poVars, spVars>>)

Spec == Init /\ [][Next]_vars

(***************************************************************************)
(* Properties of generate_modality_assets.                                 *)
(***************************************************************************)
AfterJoin == pc \in {"read", "merge", "write", "done", "write_raised"}
AfterSetup == pc = "launch" \/ pc = "join" \/ AfterJoin
Launched == Range(processes)
HasImagePrompt(script) == \E k \in DOMAIN script : "image_prompt" \in DOMAIN script[k]

\* C1: the result table is not read, script_data.json is not written and the
\* function does not return while a launched worker process is still alive:
\* past the join loop, and whenever the items have been read or the file
\* written, every worker is either never started or terminated.
C1_JoinBeforeRead ==
    (AfterJoin \/ manifest["exists"] \/ items # <<>>)
        => \A m \in ModalitySet : wstate[m] \in Terminated \cup {"unstarted"}

\* Both workers ran, one to a normal exit and one to a fault, and the
\* function returned.
C1_Witness ==
    /\ pc = "done"
    /\ Len(processes) = 2
    /\ wstate["image"] = "exited"
    /\ wstate["speech"] = "faulted"
    /\ manifest["exists"]

\* C2: with both modalities enabled, if the speech worker ends by an unhandled
\* fault, then after the join the image worker whose producer call returned has
\* exited normally and the result table holds under "image" exactly the value
\* the image producer returned.
C2_FanOutIsolation ==
    (AfterJoin /\ Launched = ModalitySet /\ wstate["speech"] = "faulted"
        /\ "image" \in DOMAIN wresult)
        => /\ wstate["image"] = "exited"
           /\ "image" \in ItemKeys(return_dict)
           /\ ItemValue(return_dict, "image") = wresult["image"]

C2_Witness ==
    /\ pc = "done"
    /\ Launched = ModalitySet
    /\ wstate["speech"] = "faulted"
    /\ "image" \in ItemKeys(return_dict)
    /\ HasGenerationResults("image", ItemValue(return_dict, "image"))

\* C3: a modality whose enable flag is false gets no producer, no parameter
\* mapping and no worker, the result table never has its key and, for image,
\* no page of the script or of the manifest has an image_prompt; a modality
\* whose flag is absent is enabled: once the set-up loop has passed it, it is
\* in enabled_modalities, and once the launch loop is over it has a worker.
FlagIsFalse(m) == EnableKey(m) \in DOMAIN config /\ config[EnableKey(m)] = FALSE
FlagIsAbsent(m) == EnableKey(m) \notin DOMAIN config

C3_DisabledModalitySkipped ==
    \A m \in ModalitySet :
        /\ FlagIsFalse(m) =>
              /\ m \notin DOMAIN agents
              /\ m \notin DOMAIN params
              /\ m \notin Range(enabled_modalities)
              /\ m \notin Launched
              /\ wstate[m] = "unstarted"
              /\ m \notin ItemKeys(return_dict)
              /\ m \notin ItemKeys(items)
              /\ (m = "image" =>
                     /\ ~HasImagePrompt(script_data)
                     /\ (manifest["exists"] => ~HasImagePrompt(manifest["pages"])))
        /\ (FlagIsAbsent(m) /\ AfterSetup) =>
              /\ m \in DOMAIN agents
              /\ m \in Range(enabled_modalities)
              /\ (pc # "launch" => m \in Launched)

C3_Witness ==
    /\ pc = "done"
    /\ FlagIsFalse("image")
    /\ FlagIsAbsent("speech")
    /\ wstate["speech"] = "exited"
    /\ ItemKeys(return_dict) = {"speech"}
    /\ manifest["exists"]

WritesOf(m) == {k \in DOMAIN writeLog : writeLog[k]["worker"] = m}
WritesTo(key) == {k \in DOMAIN writeLog : writeLog[k]["key"] = key}

\* C4: after the join every launched worker has written exactly one entry into
\* the result table, under its own modality name, and no key has been written
\* by two workers or more than once.
C4_WriteOnce ==
    AfterJoin =>
        /\ \A m \in Launched :
              /\ Cardinality(WritesOf(m)) = 1
              /\ \A k \in WritesOf(m) : writeLog[k]["key"] = m
        /\ \A key \in ModalitySet : Cardinality(WritesTo(key)) <= 1

MarksFailure(r) == IsMapping(r) /\ "status" \in DOMAIN r /\ r["status"] = "failed"

\* C5: after the join, every launched worker whose producer call failed (it
\* raised, or it returned the failed result of the speech producer) has an
\* entry under its modality name that marks the failure, and its sibling was
\* not aborted by it.
C5_FailureRecorded ==
    AfterJoin =>
        \A m \in Launched :
            (wstate[m] = "faulted"
                \/ (m \in DOMAIN wresult /\ MarksFailure(wresult[m])))
            => /\ m \in ItemKeys(return_dict)
               /\ MarksFailure(ItemValue(return_dict, m))

\* The image entry the merge expects: a mapping with generation_results and
\* at least one prompt per page.
ImageEntryExpected(d, pgs) ==
    /\ "image" \in ItemKeys(d)
    /\ HasGenerationResults("image", ItemValue(d, "image"))
    /\ "prompts" \in DOMAIN ItemValue(d, "image")
    /\ Len(ItemValue(d, "image")["prompts"]) >= Len(pgs)

\* C6: when the function returns and the result table has no image entry or
\* one that is structurally unexpected, the manifest is written, the returned
\* image list is empty and no page of the manifest has an image_prompt.
C6_MalformedImageIgnored ==
    (pc = "done" /\ ~ImageEntryExpected(return_dict, pages))
        => /\ manifest["exists"]
           /\ images = <<>>
           /\ ~HasImagePrompt(manifest["pages"])

Payloads == {"p1", "p2", "p3"}

ClientInit ==
    /\ cl_P \in SUBSET Payloads
    /\ cl_R \in 0..MaxRetryCeiling
    /\ cl_backend \in [1..(cl_R + 2) -> Payloads]
    /\ cl_calls = 0
    /\ cl_result = NoDict
    /\ cl_pc = "generate"

\* One initial attempt and max_retries additional ones.
AttemptsAllowedWithoutInitial(R) == R
AttemptsAllowed(R) == R + 1

\* One attempt: invoke the backend, run the predicate on the payload; accept
\* it, or give up when the attempts are used up, or go round again.
ClientAttempt ==
    /\ cl_pc = "generate"
    /\ cl_calls < AttemptsAllowed(cl_R)
    /\ LET payload == cl_backend[cl_calls + 1]
       IN  /\ cl_calls' = cl_calls + 1
           /\ IF payload \in cl_P
              THEN /\ cl_result' = [payload |-> payload, accepted |-> TRUE]
                   /\ cl_pc' = "done"
              ELSE IF cl_calls + 1 >= AttemptsAllowed(cl_R)
                   THEN /\ cl_result' = [payload |-> payload, accepted |-> FALSE]
                        /\ cl_pc' = "done"
                   ELSE /\ cl_result' = cl_result
                        /\ cl_pc' = cl_pc
    /\ UNCHANGED <<cl_P, cl_R, cl_backend>>

AssetsIdle ==
    /\ config = NoDict /\ pages = <<>> /\ pc = "idle" /\ i = 0 /\ dirs = {}
    /\ script_data = <<>> /\ agents = NoDict /\ params = NoDict
    /\ enabled_modalities = <<>> /\ processes = <<>>
    /\ wstate = [m \in ModalitySet |-> "unstarted"] /\ wresult = NoDict
    /\ return_dict = <<>> /\ writeLog = <<>> /\ items = <<>> /\ images = <<>>
    /\ manifest = [exists |-> FALSE]
    /\ trace = <<>> /\ params_obj = NoDict /\ video_calls = <<>>

ClientSpecInit == ClientInit /\ AssetsIdle /\ StoryIdle /\ ParseIdle /\ SpeechIdle
ClientNext == ClientAttempt /\ UNCHANGED <<gmaVars, stVars, poVars, spVars>>
ClientSpec == ClientSpecInit /\ [][ClientNext]_vars

\* The first attempt whose payload satisfies P; 0 when there is none among
\* the payloads the backend has to offer.
FirstAccepted ==
    IF \E k \in DOMAIN cl_backend : cl_backend[k] \in cl_P
    THEN CHOOSE k \in DOMAIN cl_backend :
             /\ cl_backend[k] \in cl_P
             /\ \A j \in 1..(k - 1) : cl_backend[j] \notin cl_P
    ELSE 0
AcceptedInTime == FirstAccepted # 0 /\ FirstAccepted <= cl_R + 1

\* C8: one generate call invokes the backend exactly min(k, R+1) times, k the
\* first attempt whose payload satisfies P; it ends with accepted = true and
\* the payload of attempt k when k <= R+1, and with accepted = false
\* otherwise; it never invokes the backend more than R+1 times.
C8_RetryCeiling ==
    /\ cl_calls <= cl_R + 1
    /\ cl_pc = "done" =>
          IF AcceptedInTime
          THEN /\ cl_calls = FirstAccepted
               /\ cl_result["accepted"]
               /\ cl_result["payload"] = cl_backend[FirstAccepted]
          ELSE /\ cl_calls = cl_R + 1
               /\ ~cl_result["accepted"]

\* A call that was rejected R times and accepted at the last attempt.
C8_Witness ==
    /\ cl_pc = "done"
    /\ cl_R = 2
    /\ FirstAccepted = 3
    /\ cl_calls = 3
    /\ cl_result["accepted"]

\* A call whose every payload fails P.
C8_WitnessExhausted ==
    /\ cl_pc = "done"
    /\ cl_R = 2
    /\ FirstAccepted = 0
    /\ cl_calls = 3
    /\ ~cl_result["accepted"]

(***************************************************************************)
(* QAOutlineStoryWriter.generate_story_from_outline.                       *)
(*   st_pc: chapter -> retry -> chapter ... -> done, or chapter_TypeError   *)
(* chapter_writer.call is the generation client: each call returns a       *)
(* payload and a success flag.  st_calls is the history of the calls: the  *)
(* chapter index, the completed_story sent and the flag returned.          *)
(***************************************************************************)
\* The characters for which str.isspace() holds; a character without an
\* escape is written as its code point.
Whitespace ==
    {" ", "\t", "\n", "\r", "\f", "U+000B", "U+001C", "U+001D", "U+001E",
     "U+001F", "U+0085", "U+00A0", "U+1680", "U+2000", "U+2001", "U+2002",
     "U+2003", "U+2004", "U+2005", "U+2006", "U+2007", "U+2008", "U+2009",
     "U+200A", "U+2028", "U+2029", "U+202F", "U+205F", "U+3000"}
\* bytes.strip() removes ASCII whitespace only.
BytesWhitespace == {" ", "\t", "\n", "\r", "\f", "U+000B"}

RECURSIVE LStripOf(_, _)
LStripOf(str, ws) ==
    IF str # <<>> /\ Head(str) \in ws THEN LStripOf(Tail(str), ws) ELSE str
RECURSIVE RStripOf(_, _)
RStripOf(str, ws) ==
    IF str # <<>> /\ str[Len(str)] \in ws
    THEN RStripOf(SubSeq(str, 1, Len(str) - 1), ws)
    ELSE str

\* str.lstrip(), str.rstrip(), str.strip(): leading and trailing whitespace
\* removed.
LStrip(str) == LStripOf(str, Whitespace)
RStrip(str) == RStripOf(str, Whitespace)
Strip(str) == RStrip(LStrip(str))
BytesStrip(chars) == RStripOf(LStripOf(chars, BytesWhitespace), BytesWhitespace)

\* str(n) for n >= 0, as a sequence of digits.
Digit(d) == <<"0", "1", "2", "3", "4", "5", "6", "7", "8", "9">>[d + 1]
RECURSIVE IntToStr(_)
IntToStr(n) ==
    IF n < 10 THEN <<Digit(n)>> ELSE IntToStr(n \div 10) \o <<Digit(n % 10)>>

\* f"第{idx+1}章: {chapter['chapter_title']}" (line 192; the same
\* text at lines 186 and 189), idx the 0-based position of the chapter.
ChapterPage(index, chapter) ==
    <<"U+7B2C">> \o IntToStr(index + 1) \o <<"U+7AE0", ":", " ">>
        \o chapter["chapter_title"]

\* The constant page of line 193, character by character.
AnalysisPage ==
    <<"U+57FA", "U+4E8E", "U+6570", "U+636E", "U+7684", "U+5206", "U+6790",
      "U+5185", "U+5BB9">>

\* Lines 190-193: the pages of a chapter whose every call failed.
FallbackPagesWithoutAnalysis(index, chapter) == <<ChapterPage(index, chapter)>>
FallbackPages(index, chapter) == <<ChapterPage(index, chapter), AnalysisPage>>

\* A bytes value is written as its characters after the marker "BYTES"; a
\* str never begins with the marker.  bytes has a strip method as str has.
StripElement(e) == IF IsBytes(e) THEN <<"BYTES">> \o BytesStrip(Tail(e)) ELSE Strip(e)

\* What eval(chapter_detail) gives: a list of str, a list of str and bytes,
\* a list holding a value without a strip method, a value that is not a
\* list, or an exception.  eval runs the text in the frame of
\* generate_story_from_outline, where all_pages is a local name: a payload
\* with the field effect changes that list before it gives its value, as
\* "all_pages.clear() or ['a']", "all_pages.clear()" and
\* "all_pages.append('z') or ['a']" do.
ListPayloads ==
    {[kind |-> "list", value |-> v] :
        v \in {<<>>, <<<<"U+3000", "b", "\r">>>>, <<<<"a">>, <<"c", "\n">>>>}}
EffectPayloads ==
    {[kind |-> "list", value |-> <<<<"a">>>>, effect |-> "clear"],
     [kind |-> "not_a_list", effect |-> "clear"],
     [kind |-> "list", value |-> <<<<"a">>>>, effect |-> "append"]}
ChapterPayloads ==
    ListPayloads \cup EffectPayloads
        \cup {[kind |-> "list_of_non_str"], [kind |-> "not_a_list"],
              [kind |-> "eval_raises"],
              [kind |-> "list_with_bytes",
               value |-> <<<<"a">>, <<"BYTES", "\r", "b", " ">>>>]}

\* Line 180: all_pages after the payload has been evaluated.
EvalEffect(detail, pgs) ==
    IF "effect" \notin DOMAIN detail THEN pgs
    ELSE IF detail["effect"] = "clear" THEN <<>>
    ELSE Append(pgs, <<"z">>)

\* Lines 178-189: the pages appended after a call that reported success.
\* The comprehension of line 182 calls strip on every element before
\* anything is appended; it raises on an element without that method.
SuccessPages(index, chapter, detail) ==
    IF detail["kind"] \in {"list", "list_with_bytes"}
    THEN [k \in DOMAIN detail["value"] |-> StripElement(detail["value"][k])]
    ELSE <<ChapterPage(index, chapter)>>

\* The (chapter_detail, success) pairs a call can return.  The payload of a
\* failed call is not looked at.
CallOutcomes ==
    {[detail |-> d, success |-> TRUE] : d \in ChapterPayloads}
        \cup {[detail |-> [kind |-> "eval_raises"], success |-> FALSE]}

ChapterTitles == {<<"x">>, <<"y", "z">>}
Chapters ==
    {[chapter_title |-> t, chapter_summary |-> <<"s">>] : t \in ChapterTitles}
Outlines ==
    {[story_title |-> <<"t">>, story_outline |-> o] :
        o \in SeqsUpTo(Chapters, MaxChapters)}

\* The retries of line 162.
CallerRetries == 3

StoryInit ==
    /\ outline \in Outlines
    /\ all_pages = <<>>
    /\ idx = 0
    /\ retry_count = 0
    /\ success = FALSE
    /\ chapter_detail = NoDict
    /\ st_pc = "chapter"
    /\ st_calls = <<>>
    /\ data_summary = NoDict
    /\ ol_call = "none"
    /\ st_appended = <<>>

CurrentChapter == outline["story_outline"][idx + 1]

\* The call made for the current chapter, as the history keeps it:
\* "completed_story": all_pages in the prompt (lines 150 and 167).
CallRecordWithoutStory(outcome) ==
    [chapter |-> idx, completed_story |-> <<>>, success |-> outcome["success"]]
CallRecord(outcome) ==
    [chapter |-> idx, completed_story |-> all_pages, success |-> outcome["success"]]

\* Line 148: json.dumps raises while the prompt of the next chapter is
\* built; no call is made and the exception leaves the function.
FirstCallRaises ==
    /\ st_pc = "chapter"
    /\ idx < Len(outline["story_outline"])
    /\ ~Serializable(all_pages)
    /\ st_pc' = "chapter_TypeError"
    /\ UNCHANGED <<outline, all_pages, idx, retry_count, success, chapter_detail,
                   st_calls, data_summary, ol_call, st_appended>>

\* Lines 147-161: the first call for the next chapter; retry_count = 0.
FirstCall ==
    /\ st_pc = "chapter"
    /\ idx < Len(outline["story_outline"])
    /\ Serializable(all_pages)
    /\ \E outcome \in CallOutcomes :
           /\ chapter_detail' = outcome["detail"]
           /\ success' = outcome["success"]
           /\ st_calls' = Append(st_calls, CallRecord(outcome))
    /\ retry_count' = 0
    /\ st_pc' = "retry"
    /\ UNCHANGED <<outline, all_pages, idx, data_summary, ol_call, st_appended>>

\* Line 162: while not success and retry_count < 3
ShouldRetryOnceMore(ok, count) == ~ok /\ count <= CallerRetries
ShouldRetry(ok, count) == ~ok /\ count < CallerRetries

\* Lines 163-176: one retry, with a fresh seed.  all_pages is the one the
\* first call of the chapter serialized.
RetryCall ==
    /\ st_pc = "retry"
    /\ ShouldRetry(success, retry_count)
    /\ \E outcome \in CallOutcomes :
           /\ chapter_detail' = outcome["detail"]
           /\ success' = outcome["success"]
           /\ st_calls' = Append(st_calls, CallRecord(outcome))
    /\ retry_count' = retry_count + 1
    /\ UNCHANGED <<outline, all_pages, idx, st_pc, data_summary, ol_call,
                   st_appended>>

\* Lines 178-193: after a success the payload is evaluated, which can
\* change all_pages; then the pages of the chapter are appended; next
\* chapter.
AppendChapter ==
    /\ st_pc = "retry"
    /\ ~ShouldRetry(success, retry_count)
    /\ LET chapter_pages ==
               IF success
               THEN SuccessPages(idx, CurrentChapter, chapter_detail)
               ELSE FallbackPages(idx, CurrentChapter)
           evaluated ==
               IF success THEN EvalEffect(chapter_detail, all_pages) ELSE all_pages
       IN  /\ all_pages' = evaluated \o chapter_pages
           /\ st_appended' = Append(st_appended, chapter_pages)
    /\ idx' = idx + 1
    /\ st_pc' = "chapter"
    /\ UNCHANGED <<outline, retry_count, success, chapter_detail, st_calls,
                   data_summary, ol_call>>

\* Line 195: return all_pages.
ReturnPages ==
    /\ st_pc = "chapter"
    /\ idx >= Len(outline["story_outline"])
    /\ st_pc' = "done"
    /\ UNCHANGED <<outline, all_pages, idx, retry_count, success, chapter_detail,
                   st_calls, data_summary, ol_call, st_appended>>

StorySpecInit == StoryInit /\ AssetsIdle /\ ClientIdle /\ ParseIdle /\ SpeechIdle
StoryNext ==
    \/ (FirstCall /\ UNCHANGED <<gmaVars, clVars, poVars, spVars>>)
    \/ (FirstCallRaises /\ UNCHANGED <<gmaVars, clVars, poVars, spVars>>)
    \/ (RetryCall /\ UNCHANGED <<gmaVars, clVars, poVars, spVars>>)
    \/ (AppendChapter /\ UNCHANGED <<gmaVars, clVars, poVars, spVars>>)
    \/ (ReturnPages /\ UNCHANGED <<gmaVars, clVars, poVars, spVars>>)
StorySpec == StorySpecInit /\ [][StoryNext]_vars

(***************************************************************************)
(* Properties of generate_story_from_outline.                              *)
(***************************************************************************)
ChapterIndexes == 0..(Len(outline["story_outline"]) - 1)
CallsFor(c) == {k \in DOMAIN st_calls : st_calls[k]["chapter"] = c}
AllFailed(c) == \A k \in CallsFor(c) : ~st_calls[k]["success"]
\* The pages of chapter c have been appended.
Expanded(c) == c < idx

\* The function has ended: it returned, or an exception left it.
Ended == st_pc \in {"done", "chapter_TypeError"}

\* C9: for every chapter the generation client is called at least once and at
\* most 4 times; no call is made for it after the first call that reports
\* success; exactly 4 calls are made when every call reports failure.
C9_ChapterRetry ==
    \A c \in ChapterIndexes :
        /\ Cardinality(CallsFor(c)) <= 4
        /\ \A k \in CallsFor(c) :
               st_calls[k]["success"] => \A j \in CallsFor(c) : j <= k
        /\ Expanded(c) =>
               /\ Cardinality(CallsFor(c)) >= 1
               /\ AllFailed(c) => Cardinality(CallsFor(c)) = 4
        /\ Ended => Cardinality(CallsFor(c)) >= 1

\* One chapter used up its four calls, the other succeeded at its third.
C9_Witness ==
    /\ st_pc = "done"
    /\ Len(outline["story_outline"]) = 2
    /\ AllFailed(0)
    /\ Cardinality(CallsFor(0)) = 4
    /\ Cardinality(CallsFor(1)) = 3
    /\ ~AllFailed(1)

IsPrefix(s, t) == Len(s) <= Len(t) /\ SubSeq(t, 1, Len(s)) = s
FirstCallOf(c) == CHOOSE k \in CallsFor(c) : \A j \in CallsFor(c) : k <= j
\* The story when the expansion of chapter c began, and when it ended.
StoryBefore(c) == st_calls[FirstCallOf(c)]["completed_story"]
StoryAfter(c) == IF CallsFor(c + 1) # {} THEN StoryBefore(c + 1) ELSE all_pages

\* C10: when all calls for the chapter at position N fail, exactly two pages
\* are appended for it, the first naming chapter N and its title and the
\* second the constant analysis text; the failure removes no page already
\* produced; and every chapter of the outline is expanded before the return.
C10_ChapterFallback ==
    /\ \A c \in ChapterIndexes :
           (Expanded(c) /\ AllFailed(c)) =>
               StoryAfter(c) = StoryBefore(c) \o
                   << <<"U+7B2C">> \o IntToStr(c + 1) \o <<"U+7AE0", ":", " ">>
                          \o outline["story_outline"][c + 1]["chapter_title"],
                      AnalysisPage >>
    /\ \A c \in ChapterIndexes :
           (Expanded(c) /\ AllFailed(c)) => IsPrefix(StoryBefore(c), StoryAfter(c))
    /\ \A c \in ChapterIndexes :
           (Expanded(c) /\ AllFailed(c) /\ c + 1 < Len(outline["story_outline"])
                /\ st_pc \in {"retry", "done"})
               => CallsFor(c + 1) # {}
    /\ st_pc = "done" =>
           /\ idx = Len(outline["story_outline"])
           /\ \A c \in ChapterIndexes : CallsFor(c) # {}

\* The first chapter failed and the second produced pages; and the converse.
C10_Witness ==
    /\ st_pc = "done"
    /\ Len(outline["story_outline"]) = 2
    /\ AllFailed(0)
    /\ ~AllFailed(1)
    /\ Len(all_pages) = 4
    /\ all_pages[1] = <<"U+7B2C", "1", "U+7AE0", ":", " ", "y", "z">>
    /\ all_pages[2] = AnalysisPage
    /\ all_pages[4] = <<"c">>

C10_WitnessLater ==
    /\ st_pc = "done"
    /\ Len(outline["story_outline"]) = 2
    /\ ~AllFailed(0)
    /\ AllFailed(1)
    /\ Len(all_pages) = 3
    /\ all_pages[1] = <<"b">>
    /\ all_pages[2] = <<"U+7B2C", "2", "U+7AE0", ":", " ", "x">>

(***************************************************************************)
(* json_parse_outline (story_agent.py, lines 14-27).                       *)
(* A JSON value is a record with one field naming its type: null, num,     *)
(* str (a sequence of characters), arr (a sequence of values) or obj (a    *)
(* function from keys to values).  A text is a body, the serialisation of  *)
(* a JSON value or text json.loads rejects, between the characters pre and *)
(* the characters post: a ```json fence, a part of one, or other text.     *)
(***************************************************************************)
JNull == [null |-> TRUE]
JNum == [num |-> 3]
JStr(chars) == [str |-> chars]
JArr(elems) == [arr |-> elems]
JObj(members) == [obj |-> members]
IsObj(v) == "obj" \in DOMAIN v

GoodChapter == JObj([chapter_title |-> JStr(<<"x">>), chapter_summary |-> JStr(<<"s">>)])
ChapterValues ==
    {GoodChapter,
     JObj([chapter_title |-> JStr(<<"x">>)]),
     JObj([chapter_title |-> JStr(<<"x">>), chapter_summary |-> JStr(<<"s">>),
           chapter_notes |-> JStr(<<"n">>)]),
     JStr(<<"x">>),
     JNull}
OutlineValues ==
    {JArr(elems) : elems \in SeqsUpTo(ChapterValues, MaxChapters)}
        \cup {JNull, JNum, JStr(<<>>), JStr(<<"a", "b">>), JObj(NoDict),
              JObj([a |-> JNum])}
TopLevelKeySets == SUBSET {"story_title", "story_outline", "story_notes"}
ObjectsWith(keys) ==
    IF "story_outline" \in keys
    THEN {JObj([k \in keys |-> IF k = "story_outline" THEN o ELSE JStr(<<"t">>)]) :
             o \in OutlineValues}
    ELSE {JObj([k \in keys |-> JStr(<<"t">>)])}
JsonValues ==
    {JNull, JNum, JStr(<<"a">>), JArr(<<>>), JArr(<<GoodChapter>>)}
        \cup UNION {ObjectsWith(keys) : keys \in TopLevelKeySets}
\* The characters outline.strip("```json") removes from both ends (lines
\* 15 and 74); .strip("```") then finds no backquote left at either end.
\* The backquote is written as its code point.
FenceChars == {"U+0060", "j", "s", "o", "n"}
\* The characters json.loads skips before and after a value.
JsonWhitespace == {" ", "\t", "\n", "\r"}
\* A body json.loads rejects; it neither begins nor ends with a character
\* of FenceChars (as the text ull).
Garbage == [garbage |-> TRUE]

\* What stands before and after the body: nothing; a fence written with
\* line breaks or without; a fence without the word json; the word json
\* alone; a character of FenceChars; other text.
Prefixes ==
    {<<>>, <<"U+0060", "U+0060", "U+0060", "j", "s", "o", "n", "\n">>,
     <<"U+0060", "U+0060", "U+0060", "j", "s", "o", "n">>, <<"U+0060", "U+0060", "U+0060", "\n">>,
     <<"j", "s", "o", "n", "\n">>, <<"x">>}
Suffixes == {<<>>, <<"\n", "U+0060", "U+0060", "U+0060">>, <<"U+0060", "U+0060", "U+0060">>, <<"s">>, <<"x">>}
TextsOf(vs) ==
    {[pre |-> a, body |-> b, post |-> c] :
        a \in Prefixes, b \in vs \cup {Garbage}, c \in Suffixes}
OutlineTexts == TextsOf(JsonValues)

\* outline.strip("```json").strip("```") removes from both ends every
\* character of FenceChars, whatever their order, and stops at the first
\* other character: a line break keeps the body whole.  When nothing is
\* left before the body the removal goes on into it: the text null loses
\* its n, which leaves text json.loads rejects.  No other JSON text begins
\* or ends with one of these characters.
StripFence(text) ==
    LET pre == LStripOf(text["pre"], FenceChars)
        post == RStripOf(text["post"], FenceChars)
    IN  [pre |-> pre,
         body |-> IF pre = <<>> /\ text["body"] = JNull THEN Garbage
                  ELSE text["body"],
         post |-> post]

\* json.loads accepts a value with nothing but whitespace around it, and
\* raises JSONDecodeError otherwise.
JsonLoadsOk(text) ==
    /\ "garbage" \notin DOMAIN text["body"]
    /\ \A k \in DOMAIN text["pre"] : text["pre"][k] \in JsonWhitespace
    /\ \A k \in DOMAIN text["post"] : text["post"][k] \in JsonWhitespace

\* What a for loop over a value visits: the elements of a list, the keys of
\* a dict, the characters of a str; any other value is not iterable.
IsIterable(v) == \E t \in {"arr", "obj", "str"} : t \in DOMAIN v
RECURSIVE SetToSeq(_)
SetToSeq(S) ==
    IF S = {} THEN <<>>
    ELSE LET x == CHOOSE y \in S : TRUE IN <<x>> \o SetToSeq(S \ {x})
IterationOf(v) ==
    IF "arr" \in DOMAIN v THEN v["arr"]
    ELSE IF "obj" \in DOMAIN v
    THEN LET keys == SetToSeq(DOMAIN v["obj"])
         IN  [k \in DOMAIN keys |-> JStr(<<keys[k]>>)]
    ELSE [k \in DOMAIN v["str"] |-> JStr(<<v["str"][k]>>)]

\* Lines 22-24: the loop over the chapters.  chapter.keys() raises
\* AttributeError on a value that is not a dict.
RECURSIVE CheckChapters(_)
CheckChapters(chapters) ==
    IF chapters = <<>> THEN "True"
    ELSE IF ~IsObj(Head(chapters)) THEN "AttributeError"
    ELSE IF DOMAIN Head(chapters)["obj"] # {"chapter_title", "chapter_summary"}
    THEN "False"
    ELSE CheckChapters(Tail(chapters))

\* Lines 14-27: "True", "False", or the exception that leaves the function
\* (only JSONDecodeError is caught).
JsonParseOutline(text) ==
    LET stripped == StripFence(text)
    IN  IF ~JsonLoadsOk(stripped) THEN "False"
        ELSE LET parsed == stripped["body"]
             IN  IF ~IsObj(parsed) THEN "False"
                 ELSE IF DOMAIN parsed["obj"] # {"story_title", "story_outline"}
                 THEN "False"
                 ELSE IF ~IsIterable(parsed["obj"]["story_outline"])
                 THEN "TypeError"
                 ELSE CheckChapters(IterationOf(parsed["obj"]["story_outline"]))

ParseInit == po_text \in OutlineTexts /\ po_result = "pending"

ParseOutline ==
    /\ po_result = "pending"
    /\ po_result' = JsonParseOutline(po_text)
    /\ UNCHANGED po_text

ParseSpecInit == ParseInit /\ AssetsIdle /\ ClientIdle /\ StoryIdle /\ SpeechIdle
ParseNext == ParseOutline /\ UNCHANGED <<gmaVars, clVars, stVars, spVars>>
ParseSpec == ParseSpecInit /\ [][ParseNext]_vars

\* The text is the serialisation of a JSON value, alone or inside a whole
\* ```json fence.
Parses(text) ==
    /\ "garbage" \notin DOMAIN text["body"]
    /\ <<text["pre"], text["post"]>> \in
           {<< <<>>, <<>> >>,
            << <<"U+0060", "U+0060", "U+0060", "j", "s", "o", "n", "\n">>, <<"\n", "U+0060", "U+0060", "U+0060">> >>,
            << <<"U+0060", "U+0060", "U+0060", "j", "s", "o", "n">>, <<"U+0060", "U+0060", "U+0060">> >>}

\* The text parses to an object with exactly the keys story_title and
\* story_outline whose story_outline is a sequence of objects that each have
\* exactly the keys chapter_title and chapter_summary.
IsWellFormedOutline(text) ==
    /\ Parses(text)
    /\ IsObj(text["body"])
    /\ DOMAIN text["body"]["obj"] = {"story_title", "story_outline"}
    /\ LET o == text["body"]["obj"]["story_outline"]
       IN  /\ "arr" \in DOMAIN o
           /\ \A k \in DOMAIN o["arr"] :
                  /\ IsObj(o["arr"][k])
                  /\ DOMAIN o["arr"][k]["obj"] = {"chapter_title", "chapter_summary"}

\* C11: json_parse_outline returns true exactly when the text is a well-formed
\* outline, and false, without raising, for every other text.
C11_OutlineValidation ==
    po_result # "pending" =>
        po_result = (IF IsWellFormedOutline(po_text) THEN "True" ELSE "False")


(***************************************************************************)
(* MMStoryAgent.call (lines 95-104): write_story or the placeholder pages, *)
(* then generate_modality_assets, then compose_storytelling_video.         *)
(*   pc: call -> entry -> ... -> done -> finished                          *)
(*       or story_raised, raised, write_raised, video_raised when an       *)
(*       exception leaves                                                  *)
(***************************************************************************)
\* Files open() can read; open() raises for every other path.
ReadableFiles == {"data.csv"}

WriterConfig(tool, prm) == [tool |-> tool, cfg |-> NoDict, params |-> prm]
VideoConfig(tool) == [tool |-> tool, cfg |-> NoDict, params |-> [fps |-> 8]]

\* The story part of a run configuration: enable_story and story_writer.
StoryVariants ==
    {[enable_story |-> FALSE,
      story_writer |-> WriterConfig("qa_outline_story_writer", [file_path |-> "missing.csv"])],
     [story_writer |-> WriterConfig("qa_outline_story_writer", [file_path |-> "missing.csv"])],
     [story_writer |-> WriterConfig("qa_outline_story_writer", [file_path |-> "data.csv"])],
     [enable_story |-> TRUE,
      story_writer |-> WriterConfig("data_driven_story_writer", [data_content |-> "d"])],
     [story_writer |-> WriterConfig("unknown_tool", [data_content |-> "d"])]}

\* The video part of a run configuration: enable_video and video_compose.
VideoVariants ==
    {[video_compose |-> VideoConfig("video_tool")],
     [enable_video |-> FALSE, video_compose |-> VideoConfig("video_tool")],
     [enable_video |-> TRUE, video_compose |-> VideoConfig("unknown_tool")]}

\* The modality part of a run configuration: each enable flag absent or
\* false (a flag given as true reads as an absent one, line 38).
CallFlagSettings == {f \in FlagSettings : \A k \in DOMAIN f : f[k] = FALSE}

CallConfigs ==
    {DictUpdate(DictUpdate(DictUpdate(g, f), sv), vv) :
        g \in GenerationConfigs, f \in CallFlagSettings,
        sv \in StoryVariants, vv \in VideoVariants}

\* "U+6587 U+4EF6 U+8BFB U+53D6 U+5931 U+8D25 U+FF0C U+8BF7 U+68C0 U+67E5
\*  U+6587 U+4EF6 U+8DEF U+5F84": the page returned when the file cannot
\* be read (lines 209 and 262).
FileReadFailedPage ==
    <<"U+6587", "U+4EF6", "U+8BFB", "U+53D6", "U+5931", "U+8D25", "U+FF0C",
      "U+8BF7", "U+68C0", "U+67E5", "U+6587", "U+4EF6", "U+8DEF", "U+5F84">>

\* "U+9ED8 U+8BA4 U+6545 U+4E8B U+9875 U+9762" followed by 1, 2, 3 (line 101).
DefaultPage(n) ==
    <<"U+9ED8", "U+8BA4", "U+6545", "U+4E8B", "U+9875", "U+9762">> \o IntToStr(n)
DefaultPages == <<DefaultPage(1), DefaultPage(2), DefaultPage(3)>>

\* The try block around open(params["file_path"]) raises.
FileReadFails(prm) ==
    "file_path" \in DOMAIN prm /\ prm["file_path"] \notin ReadableFiles

\* story_agent.py, lines 116-132: the outline used when the outline call reports failure.
\* Titles: U+6570 U+636E U+9A71 U+52A8 U+7684 U+6545 U+4E8B; U+6570 U+636E U+6982 U+8FF0, U+5173 U+952E U+5206 U+6790, U+7ED3 U+8BBA U+4E0E U+5E94 U+7528.
DefaultChapter(title, summary) == [chapter_title |-> title, chapter_summary |-> summary]
DefaultOutlineTwoChapters ==
    [story_title |-> <<"U+6570", "U+636E", "U+9A71", "U+52A8", "U+7684", "U+6545", "U+4E8B">>,
     story_outline |->
        <<DefaultChapter(<<"U+6570", "U+636E", "U+6982", "U+8FF0">>,
                         <<"U+4ECB", "U+7ECD", "U+6570", "U+636E", "U+7684", "U+57FA", "U+672C", "U+60C5", "U+51B5", "U+548C", "U+4E3B", "U+8981", "U+53D1", "U+73B0">>),
          DefaultChapter(<<"U+5173", "U+952E", "U+5206", "U+6790">>,
                         <<"U+6DF1", "U+5165", "U+5206", "U+6790", "U+6570", "U+636E", "U+4E2D", "U+7684", "U+5173", "U+952E", "U+4FE1", "U+606F">>)>>]
DefaultOutline ==
    [story_title |-> <<"U+6570", "U+636E", "U+9A71", "U+52A8", "U+7684", "U+6545", "U+4E8B">>,
     story_outline |->
        <<DefaultChapter(<<"U+6570", "U+636E", "U+6982", "U+8FF0">>,
                         <<"U+4ECB", "U+7ECD", "U+6570", "U+636E", "U+7684", "U+57FA", "U+672C", "U+60C5", "U+51B5", "U+548C", "U+4E3B", "U+8981", "U+53D1", "U+73B0">>),
          DefaultChapter(<<"U+5173", "U+952E", "U+5206", "U+6790">>,
                         <<"U+6DF1", "U+5165", "U+5206", "U+6790", "U+6570", "U+636E", "U+4E2D", "U+7684", "U+5173", "U+952E", "U+4FE1", "U+606F">>),
          DefaultChapter(<<"U+7ED3", "U+8BBA", "U+4E0E", "U+5E94", "U+7528">>,
                         <<"U+603B", "U+7ED3", "U+6570", "U+636E", "U+542F", "U+793A", "U+548C", "U+5B9E", "U+9645", "U+5E94", "U+7528">>)>>]

\* story_agent.py, lines 111-133: the outlines generate_outline hands to
\* the expansion.  When the outline call reports success, the outline it
\* returned: here no chapter, one chapter, or two chapters, the title of
\* the second with whitespace at both ends.  When it reports failure, the
\* constant outline of three chapters.
WriterChapter(title) == [chapter_title |-> title, chapter_summary |-> <<"s">>]
AcceptedOutlines ==
    {[story_title |-> <<"t">>, story_outline |-> o] :
        o \in {<<>>, <<WriterChapter(<<"x">>)>>,
               <<WriterChapter(<<"x">>), WriterChapter(<<" ", "y", " ">>)>>}}
WriterOutlines == AcceptedOutlines \cup {DefaultOutline}

\* story_agent.py, lines 178-193: all_pages after the chapter at position
\* index, whose last call returned outcome.
AfterChapter(pgs, index, chapter, outcome) ==
    IF outcome["success"]
    THEN EvalEffect(outcome["detail"], pgs)
             \o SuccessPages(index, chapter, outcome["detail"])
    ELSE pgs \o FallbackPages(index, chapter)

\* story_agent.py, lines 145-195: the lists generate_story_from_outline can
\* return, from the chapter at position index on with all_pages = pgs.  It
\* returns nothing when json.dumps raises on all_pages (line 148).
RECURSIVE StoryResults(_, _, _)
StoryResults(chapters, index, pgs) ==
    IF index >= Len(chapters) THEN {pgs}
    ELSE IF ~Serializable(pgs) THEN {}
    ELSE UNION {StoryResults(chapters, index + 1,
                             AfterChapter(pgs, index, chapters[index + 1], o)) :
                    o \in CallOutcomes}

\* story_agent.py, lines 317-323: the five pages DataDrivenStoryWriter
\* returns when the call failed or its payload is not a list of values
\* with a strip method.
DataDrivenDefaultPages ==
    <<<<"U+6570", "U+636E", "U+6982", "U+8FF0", "U+FF1A", "U+4ECB", "U+7ECD",
        "U+63D0", "U+4F9B", "U+7684", "U+6570", "U+636E", "U+57FA", "U+672C",
        "U+60C5", "U+51B5">>,
      <<"U+5173", "U+952E", "U+53D1", "U+73B0", "U+FF1A", "U+5206", "U+6790",
        "U+6570", "U+636E", "U+4E2D", "U+7684", "U+4E3B", "U+8981", "U+8D8B",
        "U+52BF">>,
      <<"U+6DF1", "U+5EA6", "U+89E3", "U+8BFB", "U+FF1A", "U+6DF1", "U+5165",
        "U+7406", "U+89E3", "U+6570", "U+636E", "U+542B", "U+4E49">>,
      <<"U+5B9E", "U+9645", "U+5E94", "U+7528", "U+FF1A", "U+63A2", "U+8BA8",
        "U+6570", "U+636E", "U+7684", "U+73B0", "U+5B9E", "U+610F", "U+4E49">>,
      <<"U+603B", "U+7ED3", "U+5C55", "U+671B", "U+FF1A", "U+603B", "U+7ED3",
        "U+6570", "U+636E", "U+542F", "U+793A">>>>

\* story_agent.py, lines 306-323: the pages DataDrivenStoryWriter.call
\* returns for the outcome of its one call.  all_pages is not a name of
\* that frame: a payload that uses it raises NameError, which is caught.
DirectPages(outcome) ==
    LET detail == outcome["detail"]
    IN  IF /\ outcome["success"]
           /\ detail["kind"] \in {"list", "list_with_bytes"}
           /\ "effect" \notin DOMAIN detail
        THEN [k \in DOMAIN detail["value"] |-> StripElement(detail["value"][k])]
        ELSE DataDrivenDefaultPages

\* What story_writer.call(cfg["params"]) can return (mm_story_agent.py,
\* lines 21-24), by writer: the single failure page when the file cannot
\* be read; the expansion of an outline for the outline writer; the
\* stripped list or the five default pages for the direct writer.
WriterPages(cfg) ==
    IF FileReadFails(cfg["params"]) THEN {<<FileReadFailedPage>>}
    ELSE IF cfg["tool"] = "qa_outline_story_writer"
    THEN UNION {StoryResults(o["story_outline"], 0, <<>>) : o \in WriterOutlines}
    ELSE {DirectPages(o) : o \in CallOutcomes}

StoryEnabled(cfg) == DictGet(cfg, "enable_story", TRUE)
VideoEnabled(cfg) == DictGet(cfg, "enable_video", TRUE)

CallInit ==
    /\ config \in CallConfigs
    /\ pages = <<>>
    /\ pc = "call"
    /\ i = 0
    /\ dirs = {}
    /\ script_data = <<>>
    /\ agents = NoDict
    /\ params = NoDict
    /\ enabled_modalities = <<>>
    /\ processes = <<>>
    /\ wstate = [m \in ModalitySet |-> "unstarted"]
    /\ wresult = NoDict
    /\ return_dict = <<>>
    /\ writeLog = <<>>
    /\ items = <<>>
    /\ images = <<>>
    /\ manifest = [exists |-> FALSE]
    /\ trace = <<>>
    /\ params_obj \in ConfigObjects(config)
    /\ video_calls = <<>>

\* Lines 97-98 and 20-24: pages = self.write_story(config) returns.
WriteStory ==
    /\ pc = "call"
    /\ StoryEnabled(config)
    /\ InitToolInstanceOk(config["story_writer"])
    /\ pages' \in WriterPages(config["story_writer"])
    /\ trace' = Append(trace, [ev |-> "story", m |-> "-"])
    /\ pc' = "entry"
    /\ UNCHANGED <<config, i, dirs, script_data, agents, params,
                   enabled_modalities, processes, wstate, wresult, return_dict,
                   writeLog, items, images, manifest, params_obj, video_calls>>

\* Lines 22-23: init_tool_instance raises for an unknown writer, and an
\* exception of the writer's outline stage leaves story_writer.call; the
\* read failure is caught inside the writer and raises nothing.
WriteStoryRaises ==
    /\ pc = "call"
    /\ StoryEnabled(config)
    /\ \/ ~InitToolInstanceOk(config["story_writer"])
       \/ ~FileReadFails(config["story_writer"]["params"])
    /\ pc' = "story_raised"
    /\ UNCHANGED <<config, pages, i, dirs, script_data, agents, params,
                   enabled_modalities, processes, wstate, wresult, return_dict,
                   writeLog, items, images, manifest, trace, params_obj,
                   video_calls>>

\* Lines 99-101: the three placeholder pages.
SkipStory ==
    /\ pc = "call"
    /\ ~StoryEnabled(config)
    /\ pages' = DefaultPages
    /\ trace' = Append(trace, [ev |-> "story", m |-> "-"])
    /\ pc' = "entry"
    /\ UNCHANGED <<config, i, dirs, script_data, agents, params,
                   enabled_modalities, processes, wstate, wresult, return_dict,
                   writeLog, items, images, manifest, params_obj, video_calls>>

\* generate_modality_assets has returned to call (line 103).
AssetsReturnedEarly == pc \in {"write", "done"}
AssetsReturned == pc = "done"

\* params = config["video_compose"]["params"].copy() (line 91)
VideoParamsObject(objs) == NewMapping(objs)

\* Lines 90-93: the composer is resolved and called with the copied params.
ComposeVideo ==
    /\ AssetsReturned
    /\ VideoEnabled(config)
    /\ InitToolInstanceOk(config["video_compose"])
    /\ video_calls' = Append(video_calls,
           DictUpdate(config["video_compose"]["params"], [pages |-> pages]))
    /\ params_obj' = DictUpdate(params_obj,
           [k \in {"video"} |-> VideoParamsObject(params_obj)])
    /\ config' = ConfigAfterUpdate(config, params_obj,
                                   VideoParamsObject(params_obj), [pages |-> pages])
    /\ trace' = Append(trace, [ev |-> "video", m |-> "-"])
    /\ pc' = "finished"
    /\ UNCHANGED <<pages, i, dirs, script_data, agents, params,
                   enabled_modalities, processes, wstate, wresult, return_dict,
                   writeLog, items, images, manifest>>

\* Line 90: init_tool_instance(config["video_compose"]) raises.
ComposeVideoRaises ==
    /\ AssetsReturned
    /\ VideoEnabled(config)
    /\ ~InitToolInstanceOk(config["video_compose"])
    /\ pc' = "video_raised"
    /\ UNCHANGED <<config, pages, i, dirs, script_data, agents, params,
                   enabled_modalities, processes, wstate, wresult, return_dict,
                   writeLog, items, images, manifest, trace, params_obj,
                   video_calls>>

\* Lines 86-88: video composition is disabled.
SkipVideo ==
    /\ AssetsReturned
    /\ ~VideoEnabled(config)
    /\ pc' = "finished"
    /\ UNCHANGED <<config, pages, i, dirs, script_data, agents, params,
                   enabled_modalities, processes, wstate, wresult, return_dict,
                   writeLog, items, images, manifest, trace, params_obj,
                   video_calls>>

CallSpecInit == CallInit /\ ClientIdle /\ StoryIdle /\ ParseIdle /\ SpeechIdle

CallNext ==
    \/ (WriteStory /\ UNCHANGED <<clVars, stVars, poVars, spVars>>)
    \/ (WriteStoryRaises /\ UNCHANGED <<clVars, stVars, poVars, spVars>>)
    \/ (SkipStory /\ UNCHANGED <<clVars, stVars, poVars, spVars>>)
    \/ Next
    \/ (ComposeVideo /\ UNCHANGED <<clVars, stVars, poVars, spVars>>)
    \/ (ComposeVideoRaises /\ UNCHANGED <<clVars, stVars, poVars, spVars>>)
    \/ (SkipVideo /\ UNCHANGED <<clVars, stVars, poVars, spVars>>)

CallSpec == CallSpecInit /\ [][CallNext]_vars

\* C12: when the story writer's input names a file that cannot be read, the
\* run ends there: no modality worker is launched, no manifest is written
\* and video composition is not invoked.
UnreadableInput ==
    /\ StoryEnabled(config)
    /\ InitToolInstanceOk(config["story_writer"])
    /\ FileReadFails(config["story_writer"]["params"])

C12_UnreadableInputTerminates ==
    UnreadableInput =>
        /\ processes = <<>>
        /\ ~manifest["exists"]
        /\ video_calls = <<>>


(***************************************************************************)
(* The order of the stages of a run, read off the history of its events.   *)
(***************************************************************************)
StageOf(e) ==
    CASE e["ev"] = "story" -> 1
      [] e["ev"] = "construct" -> 2
      [] e["ev"] = "start" -> 3
      [] e["ev"] \in {"manifest", "manifest_TypeError"} -> 4
      [] e["ev"] = "video" -> 5

EventsOf(kind) == {k \in DOMAIN trace : trace[k]["ev"] = kind}

\* The run of call has ended: it returned, or an exception left it.
RunEnded ==
    pc \in {"finished", "story_raised", "raised", "write_raised", "video_raised"}

\* generate_modality_assets has returned in this run.
AssetsHaveReturned == pc \in {"done", "finished", "video_raised"}

\* Story first, video after the workers and the manifest, no stage twice or
\* out of order.
ForwardOrder ==
    /\ (agents # NoDict \/ processes # <<>> \/ EventsOf("construct") # {}
            \/ EventsOf("start") # {})
          => (trace # <<>> /\ trace[1]["ev"] = "story")
    /\ Cardinality(EventsOf("story")) <= 1
    /\ video_calls # <<>> =>
          /\ manifest["exists"]
          /\ manifest["complete"]
          /\ EventsOf("manifest") # {}
          /\ \A m \in Launched : wstate[m] \in Terminated
    /\ Cardinality(EventsOf("video")) <= 1
    /\ Len(video_calls) = Cardinality(EventsOf("video"))
    /\ \A j, k \in DOMAIN trace : j < k => StageOf(trace[j]) <= StageOf(trace[k])

\* The statement as the specification has it: the pipeline runs strictly
\* forward and every run, however it ends, has written the manifest exactly
\* once.
C13_ManifestOncePerRun ==
    /\ ForwardOrder
    /\ Cardinality(EventsOf("manifest")) <= 1
    /\ RunEnded => Cardinality(EventsOf("manifest")) = 1

\* C13: the pipeline runs strictly forward.  Story writing (or the
\* placeholder substitution) completes before any producer is constructed or
\* any worker started; video composition is invoked only after every
\* launched worker has terminated and the manifest has been written; the
\* file of the manifest is opened for writing at most once per run, and the
\* manifest is written exactly once, whole, in every run in which
\* generate_modality_assets returns; no earlier stage is re-entered.
C13_StrictlyForward ==
    /\ ForwardOrder
    /\ Cardinality(EventsOf("manifest")) + Cardinality(EventsOf("manifest_TypeError")) <= 1
    /\ AssetsHaveReturned =>
          /\ Cardinality(EventsOf("manifest")) = 1
          /\ EventsOf("manifest_TypeError") = {}
          /\ manifest["exists"] /\ manifest["complete"]
    /\ RunEnded /\ ~AssetsHaveReturned => EventsOf("manifest") = {}

\* A run with both workers and the video: every stage has happened.
C13_Witness ==
    /\ pc = "finished"
    /\ Len(processes) = 2
    /\ video_calls # <<>>
    /\ trace[1]["ev"] = "story"
    /\ StoryEnabled(config)
    /\ \E m \in ModalitySet : wstate[m] = "faulted"


(***************************************************************************)
(* QAOutlineStoryWriter: generate_data_summary (lines 52-82) and           *)
(* generate_outline (lines 84-133), followed by the expansion above.       *)
(*   st_pc: summary -> outline -> chapter -> ... -> done                   *)
(*          or the name of the exception that leaves generate_outline      *)
(***************************************************************************)
SummaryKeys == {"data_key_points", "main_themes", "recommended_story_flow"}

\* Lines 78-82: the summary used when the text cannot be parsed.
DefaultSummary ==
    JObj([data_key_points |-> JArr(<<JStr(<<"U+57FA", "U+4E8E", "U+63D0", "U+4F9B", "U+7684", "U+6570", "U+636E", "U+5185", "U+5BB9">>)>>),
          main_themes |-> JArr(<<JStr(<<"U+6570", "U+636E", "U+9A71", "U+52A8", "U+7684", "U+6545", "U+4E8B">>)>>),
          recommended_story_flow |-> JStr(<<"U+6309", "U+7167", "U+6570", "U+636E", "U+903B", "U+8F91", "U+5C55", "U+5F00">>)])

\* What the summarisation call can return: the serialisation of a JSON
\* value, with or without a fence, or text json.loads rejects.
SummaryValues ==
    {JNull, JNum, JStr(<<"a">>), JArr(<<>>)}
        \cup {JObj([k \in keys |-> JStr(<<"v">>)]) : keys \in SUBSET SummaryKeys}
SummaryTexts == TextsOf(SummaryValues)

\* Lines 73-82: whatever json.loads returns, or the default when it raises.
GenerateDataSummary(text) ==
    LET stripped == StripFence(text)
    IN  IF JsonLoadsOk(stripped) THEN stripped["body"] ELSE DefaultSummary

\* Lines 101-103: data_summary['data_key_points'] and the two other
\* subscripts, evaluated while the prompt is built, outside any try.
OutlinePrompt(summary) ==
    IF ~IsObj(summary) THEN "TypeError"
    ELSE IF ~(SummaryKeys \subseteq DOMAIN summary["obj"]) THEN "KeyError"
    ELSE "ok"

WriterInit ==
    /\ outline = NoDict
    /\ all_pages = <<>>
    /\ idx = 0
    /\ retry_count = 0
    /\ success = FALSE
    /\ chapter_detail = NoDict
    /\ st_pc = "summary"
    /\ st_calls = <<>>
    /\ data_summary = NoDict
    /\ ol_call = "none"
    /\ st_appended = <<>>

\* Line 87: data_summary = self.generate_data_summary(data_content)
Summarize ==
    /\ st_pc = "summary"
    /\ \E text \in SummaryTexts : data_summary' = GenerateDataSummary(text)
    /\ st_pc' = "outline"
    /\ UNCHANGED <<outline, all_pages, idx, retry_count, success, chapter_detail,
                   st_calls, ol_call, st_appended>>

\* Lines 98-109: building the prompt raises; the exception leaves
\* generate_outline and no outline request is made.
OutlinePromptRaises ==
    /\ st_pc = "outline"
    /\ OutlinePrompt(data_summary) # "ok"
    /\ st_pc' = OutlinePrompt(data_summary)
    /\ UNCHANGED <<outline, all_pages, idx, retry_count, success, chapter_detail,
                   st_calls, data_summary, ol_call, st_appended>>

\* Lines 111-133: the outline request; the accepted outline, or the default.
RequestOutline ==
    /\ st_pc = "outline"
    /\ OutlinePrompt(data_summary) = "ok"
    /\ \/ /\ ol_call' = "accepted"
          /\ outline' \in Outlines
       \/ /\ ol_call' = "failed"
          /\ outline' = DefaultOutline
    /\ st_pc' = "chapter"
    /\ UNCHANGED <<all_pages, idx, retry_count, success, chapter_detail,
                   st_calls, data_summary, st_appended>>

WriterSpecInit == WriterInit /\ AssetsIdle /\ ClientIdle /\ ParseIdle /\ SpeechIdle
WriterNext ==
    \/ (Summarize /\ UNCHANGED <<gmaVars, clVars, poVars, spVars>>)
    \/ (OutlinePromptRaises /\ UNCHANGED <<gmaVars, clVars, poVars, spVars>>)
    \/ (RequestOutline /\ UNCHANGED <<gmaVars, clVars, poVars, spVars>>)
    \/ StoryNext
WriterSpec == WriterSpecInit /\ [][WriterNext]_vars

Expanding == st_pc \in {"chapter", "retry", "done", "chapter_TypeError"}

\* C14: whenever the outline call reports failure, the outline returned by
\* generate_outline is the constant default, with exactly 3 chapters that
\* each have exactly the keys chapter_title and chapter_summary; the
\* expansion then covers exactly 3 chapters, and the writer returns at least
\* 3 pages when every chapter fails as well.
C14_OutlineFallback ==
    (Expanding /\ ol_call = "failed") =>
        /\ outline = DefaultOutline
        /\ Len(outline["story_outline"]) = 3
        /\ \A k \in DOMAIN outline["story_outline"] :
               DOMAIN outline["story_outline"][k] = {"chapter_title", "chapter_summary"}
        /\ \A k \in DOMAIN st_calls : st_calls[k]["chapter"] \in 0..2
        /\ Ended =>
               /\ idx = 3
               /\ Len(st_appended) = 3
               /\ \A c \in 0..2 : CallsFor(c) # {}
               /\ (\A c \in 0..2 : AllFailed(c)) => Len(all_pages) >= 3

\* The outline call failed and then all three chapters failed: six pages.
C14_Witness ==
    /\ st_pc = "done"
    /\ ol_call = "failed"
    /\ \A c \in 0..2 : AllFailed(c)
    /\ Len(all_pages) = 6
    /\ all_pages[5] = <<"U+7B2C", "3", "U+7AE0", ":", " ">> \o <<"U+7ED3", "U+8BBA", "U+4E0E", "U+5E94", "U+7528">>

RECURSIVE Concat(_)
Concat(seqs) == IF seqs = <<>> THEN <<>> ELSE Head(seqs) \o Concat(Tail(seqs))

\* C15: chapters are expanded in outline order; a call for chapter i is
\* issued only after the pages of the chapters before it have been appended;
\* every call for chapter i carries as completed_story the concatenation, in
\* order, of the pages appended for the chapters before i; the returned
\* pages are that concatenation over all chapters.
C15_CumulativeExpansion ==
    Expanding =>
        /\ idx = Len(st_appended)
        /\ \A j, k \in DOMAIN st_calls :
               j < k => st_calls[j]["chapter"] <= st_calls[k]["chapter"]
        /\ \A k \in DOMAIN st_calls :
               /\ st_calls[k]["chapter"] <= Len(st_appended)
               /\ st_calls[k]["completed_story"] =
                      Concat(SubSeq(st_appended, 1, st_calls[k]["chapter"]))
        /\ all_pages = Concat(st_appended)
        /\ st_pc = "done" => Len(st_appended) = Len(outline["story_outline"])

\* The third chapter was retried, and its calls carried the four pages of
\* the first two chapters.
C15_Witness ==
    /\ st_pc = "done"
    /\ Len(outline["story_outline"]) = 3
    /\ Cardinality(CallsFor(2)) >= 2
    /\ Len(st_appended[1]) = 2
    /\ Len(st_appended[2]) = 2
    /\ \A k \in CallsFor(2) : Len(st_calls[k]["completed_story"]) = 4
    /\ Len(all_pages) > 4

\* C16: whatever text the summarisation call returns, no exception leaves
\* generate_outline: the parsed summary or the default summary is used and
\* the outline request is issued.
C16_SummaryNeverBlocks ==
    /\ st_pc \notin {"TypeError", "KeyError"}
    /\ Expanding => ol_call # "none"


(***************************************************************************)
(* Further properties of generate_modality_assets.                         *)
(***************************************************************************)
\* The producer of an enabled modality cannot be resolved.
ResolutionFails(m) ==
    /\ DictGet(config, EnableKey(m), TRUE)
    /\ config[GenerationKey(m)]["tool"] \notin RegisteredTools

ConstructionsOf(m) ==
    {k \in DOMAIN trace : trace[k]["ev"] = "construct" /\ trace[k]["m"] = m}

\* C17: if resolving the producer of an enabled modality fails, the error
\* goes to the caller without a retry; no worker of any modality has been
\* started, the result table has no entry and no manifest has been written.
C17_ConstructionFailureFatal ==
    /\ (\E m \in ModalitySet : ResolutionFails(m)) =>
           /\ ~AfterSetup
           /\ processes = <<>>
           /\ \A m \in ModalitySet : wstate[m] = "unstarted"
           /\ return_dict = <<>>
           /\ ~manifest["exists"]
    /\ pc = "raised" =>
           /\ trace # <<>>
           /\ trace[Len(trace)]["ev"] = "construct"
           /\ ResolutionFails(trace[Len(trace)]["m"])
           /\ \A m \in ModalitySet : Cardinality(ConstructionsOf(m)) <= 1

\* The image producer was constructed and the speech producer was not.
C17_Witness ==
    /\ pc = "raised"
    /\ DOMAIN agents = {"image"}
    /\ ResolutionFails("speech")
    /\ pages # <<>>

\* What the run writes and returns, from the pages and the results of the
\* producers alone: only the stored image result counts.
ImageStored == wstate["image"] = "exited"
ExpectedImages ==
    IF ImageStored /\ IsMapping(wresult["image"])
           /\ "generation_results" \in DOMAIN wresult["image"]
    THEN wresult["image"]["generation_results"]
    ELSE <<>>
ExpectedPromptCount ==
    IF ImageStored /\ IsMapping(wresult["image"])
           /\ {"generation_results", "prompts"} \subseteq DOMAIN wresult["image"]
    THEN Min(Len(pages), Len(wresult["image"]["prompts"]))
    ELSE 0
ExpectedManifest ==
    [k \in 1..Len(pages) |->
        IF k <= ExpectedPromptCount
        THEN [story |-> pages[k], image_prompt |-> wresult["image"]["prompts"][k]]
        ELSE [story |-> pages[k]]]

\* C18: for fixed pages, configuration and producer results, the manifest
\* written and the image list returned are the same for every order in which
\* the workers start, finish and write their entries.
C18_WorkersCommute ==
    pc = "done" =>
        /\ images = ExpectedImages
        /\ manifest["pages"] = ExpectedManifest

\* The speech worker wrote its entry before the image worker did.
C18_Witness ==
    /\ pc = "done"
    /\ Len(items) = 2
    /\ items[1][1] = "speech"
    /\ items[2][1] = "image"
    /\ images # <<>>
    /\ HasImagePrompt(manifest["pages"])

\* The image worker wrote its entry first.
C18_WitnessImageFirst ==
    /\ pc = "done"
    /\ Len(items) = 2
    /\ items[1][1] = "image"
    /\ images # <<>>

(***************************************************************************)
(* Fair scheduling: the driver keeps running while it has a step to take,  *)
(* and every worker process keeps running until it has ended.              *)
(***************************************************************************)
DriverStep ==
    /\ \/ Entry \/ SetupModality \/ SetupDone \/ LaunchWorker \/ LaunchDone
       \/ JoinWorker \/ JoinDone \/ ReadResults \/ MergeItem \/ MergeDone
       \/ WriteManifest \/ WriteManifestRaises
    /\ UNCHANGED <<clVars, stVars, poVars, spVars>>

WorkerStep(m) ==
    /\ \/ WorkerCallReturns(m) \/ WorkerCallRaises(m) \/ WorkerStore(m)
    /\ UNCHANGED <<clVars, stVars, poVars, spVars>>

LiveSpec ==
    /\ Init
    /\ [][Next]_vars
    /\ WF_vars(DriverStep)
    /\ \A m \in ModalitySet : WF_vars(WorkerStep(m))

\* C19: under fair scheduling, once the workers are being launched the run
\* passes the join, writes the manifest and returns; a worker that ended by
\* an unhandled fault does not keep the join waiting.
C19_FanInTermination ==
    (pc \in {"launch", "join"}) ~> (pc = "done" /\ manifest["exists"])

\* The part of it the join is responsible for: the run always gets past the
\* join and the merge, to the end of the manifest write, whether that write
\* returns or raises.
FanInReachesWrite ==
    (pc \in {"launch", "join"}) ~> (pc \in {"done", "write_raised"})

\* The join was passed with a faulted worker and the manifest write raised.
FanInWriteRaised ==
    /\ pc = "write_raised"
    /\ Len(processes) = 2
    /\ wstate["image"] = "faulted"
    /\ wstate["speech"] = "exited"
    /\ ~manifest["complete"]

(***************************************************************************)
(* Parameter isolation.                                                    *)
(***************************************************************************)

\* C20: generate_modality_assets and compose_storytelling_video leave every
\* params block of the configuration unchanged (no pages, no save_path), and
\* the mapping handed to one task is a different mapping from the one handed
\* to any other task and from every block of the configuration, whether or
\* not blocks of the configuration are one object; the mapping of a modality
\* task holds the entries of its block, the pages and its own save_path at
\* every later time.
TasksHanded == TaskNames \cap DOMAIN params_obj
BlocksOfConfig == ParamsBlocks \cap DOMAIN params_obj

C20_ParameterIsolation ==
    /\ [][config' = config]_vars
    /\ [](\A b \in ParamsBlocks :
             b \in DOMAIN config =>
                 {"pages", "save_path"} \cap DOMAIN config[b]["params"] = {})
    /\ [](\A t \in TasksHanded :
             /\ \A b \in BlocksOfConfig : params_obj[t] # params_obj[b]
             /\ \A u \in TasksHanded : t # u => params_obj[t] # params_obj[u])
    /\ [](\A m \in DOMAIN params :
             /\ params[m]["save_path"] = SubDir(config["story_dir"], m)
             /\ params[m]["pages"] = pages
             /\ \A k \in DOMAIN config[GenerationKey(m)]["params"] :
                    params[m][k] = config[GenerationKey(m)]["params"][k])

\* Both modality tasks and the video task got their mappings.
C20_Witness ==
    /\ pc = "finished"
    /\ TasksHanded = TaskNames
    /\ params_obj["image_generation"] = params_obj["speech_generation"]
    /\ Len(video_calls) = 1
    /\ "pages" \in DOMAIN video_calls[1]
    /\ "save_path" \in DOMAIN params["image"]
    /\ params["image"]["save_path"] # params["speech"]["save_path"]


(***************************************************************************)
(* The pages a successful chapter call contributes.                        *)
(***************************************************************************)
\* The payload evaluates to a list whose elements are all str.
IsListOfStr(detail) ==
    /\ detail["kind"] \in {"list", "list_with_bytes"}
    /\ \A k \in DOMAIN detail["value"] : ~IsBytes(detail["value"][k])

\* The chapter whose pages were appended last, and what it was given.
LastChapter == outline["story_outline"][idx]
JustAppended == st_pc \in {"chapter", "done"} /\ idx > 0

\* C21: when a call for a chapter reports success, either every element of
\* the evaluated page list is appended, each stripped of leading and trailing
\* whitespace, or, when the payload does not evaluate to a list of strings,
\* exactly one placeholder page naming the chapter is appended; never a part
\* of the list.
C21_ChapterAllOrNothing ==
    (JustAppended /\ success) =>
        IF IsListOfStr(chapter_detail)
        THEN /\ Len(st_appended[idx]) = Len(chapter_detail["value"])
             /\ \A k \in DOMAIN chapter_detail["value"] :
                    st_appended[idx][k] = Strip(chapter_detail["value"][k])
        ELSE st_appended[idx] =
                 << <<"U+7B2C">> \o IntToStr(idx) \o <<"U+7AE0", ":", " ">>
                        \o LastChapter["chapter_title"] >>


(***************************************************************************)
(* CosyVoiceAgent.call (speech_agent.py, lines 166-218) with the loop over *)
(* the endpoints of StandardTTSSynthesizer.call (lines 46-157).  The       *)
(* speech service is outside the program.  sdk.start hands the callbacks   *)
(* on_data, on_completed and on_close to the sdk, which calls them from    *)
(* its own thread: data reaches the file while call waits, after the file  *)
(* check, and after call has returned.                                     *)
(*   sp_pc: start -> page -> endpoint -> wait -> page -> ... -> done       *)
(***************************************************************************)
\* The endpoints list of lines 83-87.
Endpoints == 3

SpeechPageTexts == {<<"a">>, <<" ", "U+3000", "\r">>, <<>>}
SpeechPageSeqs == SeqsUpTo(SpeechPageTexts, MaxPages)

\* Line 191: not page or len(page.strip()) == 0
Blank(page) == page = <<>> \/ Strip(page) = <<>>

\* Line 197: save_path / f"p{idx + 1}.mp3"
SaveFile(index) == <<"p">> \o IntToStr(index + 1) \o <<".", "m", "p", "3">>

\* Lines 204-210 and 214-218: the two dicts call can return.
SpeechSuccess(pgs) ==
    [modality |-> "speech", status |-> "success", generated_files |-> Len(pgs),
     tts_type |-> "standard", voice |-> "xiaoyun"]
SpeechFailed == [modality |-> "speech", status |-> "failed", error |-> "synthesis failed"]

\* Line 131: save_path.exists() and save_path.stat().st_size > 0
FileCheckSkipped(files, name) == TRUE
FileCheck(files, name) == name \in DOMAIN files /\ files[name]

SpeechInit ==
    /\ sp_pages \in SpeechPageSeqs
    /\ sp_idx = 0
    /\ sp_endpoint = 0
    /\ sp_files = NoDict
    /\ sp_last_error = FALSE
    /\ sp_inflight = {}
    /\ sp_calls = <<>>
    /\ sp_result = NoDict
    /\ sp_pc = "start"

\* Line 177: StandardTTSSynthesizer(self.cfg); _validate_credentials raises
\* ValueError inside the try block when a credential is missing.
ConstructSynthesizer ==
    /\ sp_pc = "start"
    /\ \/ /\ sp_pc' = "page"
          /\ sp_result' = sp_result
       \/ /\ sp_pc' = "done"
          /\ sp_result' = SpeechFailed
    /\ UNCHANGED <<sp_pages, sp_idx, sp_endpoint, sp_files, sp_last_error,
                   sp_inflight, sp_calls>>

\* Lines 189-193: a blank page is skipped.
SkipBlankPage ==
    /\ sp_pc = "page"
    /\ sp_idx < Len(sp_pages)
    /\ Blank(sp_pages[sp_idx + 1])
    /\ sp_idx' = sp_idx + 1
    /\ UNCHANGED <<sp_pages, sp_endpoint, sp_files, sp_last_error, sp_inflight,
                   sp_calls, sp_result, sp_pc>>

\* Lines 196-201 and 52-91: tts_agent.call is entered; open(save_path, "wb")
\* creates or empties the file; success = False, last_error = None.
OpenSaveFile ==
    /\ sp_pc = "page"
    /\ sp_idx < Len(sp_pages)
    /\ ~Blank(sp_pages[sp_idx + 1])
    /\ sp_files' = DictUpdate(sp_files, [k \in {SaveFile(sp_idx)} |-> FALSE])
    /\ sp_endpoint' = 1
    /\ sp_last_error' = FALSE
    /\ sp_pc' = "endpoint"
    /\ UNCHANGED <<sp_pages, sp_idx, sp_inflight, sp_calls, sp_result>>

\* Lines 93-117: the next endpoint is tried.  NlsSpeechSynthesizer(...) or
\* sdk.start(...) raises, which the except of line 143 records before the
\* loop continues, or sdk.start returns and the wait of lines 120-123
\* begins.  An sdk that was started holds on_data, and with it the writer.
StartAttempt ==
    /\ sp_pc = "endpoint"
    /\ sp_endpoint <= Endpoints
    /\ sp_calls' = Append(sp_calls,
           [page |-> sp_idx, endpoint |-> sp_endpoint, file |-> SaveFile(sp_idx)])
    /\ \E raised \in BOOLEAN, started \in BOOLEAN :
          /\ sp_inflight' = IF started THEN sp_inflight \cup {SaveFile(sp_idx)}
                            ELSE sp_inflight
          /\ IF raised
             THEN /\ sp_last_error' = TRUE
                  /\ sp_endpoint' = sp_endpoint + 1
                  /\ sp_pc' = sp_pc
             ELSE /\ started
                  /\ sp_pc' = "wait"
                  /\ UNCHANGED <<sp_endpoint, sp_last_error>>
    /\ UNCHANGED <<sp_pages, sp_idx, sp_files, sp_result>>

\* on_data (lines 66-70), called by the thread of a started sdk, and the
\* flush of the writer's buffer (on_close, a full buffer, or the release of
\* the writer once call has ended): the file becomes non-empty.  Neither is
\* ordered with the steps of call.
DataArrives ==
    /\ \E name \in sp_inflight :
          /\ ~sp_files[name]
          /\ sp_files' = [sp_files EXCEPT ![name] = TRUE]
    /\ UNCHANGED <<sp_pages, sp_idx, sp_endpoint, sp_last_error, sp_inflight,
                   sp_calls, sp_result, sp_pc>>

\* Lines 120-146: the wait has ended, by on_completed or after 30 seconds
\* (then sdk.shutdown() is tried); the file is checked as it is at that
\* moment.  Non-empty: success, and tts_agent.call returns.  Otherwise a
\* line is appended to synthesis_errors.log, which can raise, and the loop
\* goes to the next endpoint.
CheckFile ==
    /\ sp_pc = "wait"
    /\ IF FileCheck(sp_files, SaveFile(sp_idx))
       THEN /\ sp_idx' = sp_idx + 1
            /\ sp_pc' = "page"
            /\ UNCHANGED <<sp_endpoint, sp_last_error>>
       ELSE /\ sp_endpoint' = sp_endpoint + 1
            /\ sp_pc' = "endpoint"
            /\ \E raised \in BOOLEAN : sp_last_error' = (sp_last_error \/ raised)
            /\ UNCHANGED sp_idx
    /\ UNCHANGED <<sp_pages, sp_files, sp_inflight, sp_calls, sp_result>>

\* Lines 148-152 and 212-218: no endpoint succeeded; the exception raised by
\* tts_agent.call is caught by call, which returns the failed dict.
EndpointsExhausted ==
    /\ sp_pc = "endpoint"
    /\ sp_endpoint > Endpoints
    /\ sp_result' = SpeechFailed
    /\ sp_pc' = "done"
    /\ UNCHANGED <<sp_pages, sp_idx, sp_endpoint, sp_files, sp_last_error,
                   sp_inflight, sp_calls>>

\* Lines 203-210: the loop has ended; the success dict is returned.
ReturnSuccess ==
    /\ sp_pc = "page"
    /\ sp_idx >= Len(sp_pages)
    /\ sp_result' = SpeechSuccess(sp_pages)
    /\ sp_pc' = "done"
    /\ UNCHANGED <<sp_pages, sp_idx, sp_endpoint, sp_files, sp_last_error,
                   sp_inflight, sp_calls>>

SpeechSpecInit == SpeechInit /\ AssetsIdle /\ ClientIdle /\ StoryIdle /\ ParseIdle
SpeechNext ==
    \/ (ConstructSynthesizer /\ UNCHANGED <<gmaVars, clVars, stVars, poVars>>)
    \/ (SkipBlankPage /\ UNCHANGED <<gmaVars, clVars, stVars, poVars>>)
    \/ (OpenSaveFile /\ UNCHANGED <<gmaVars, clVars, stVars, poVars>>)
    \/ (StartAttempt /\ UNCHANGED <<gmaVars, clVars, stVars, poVars>>)
    \/ (DataArrives /\ UNCHANGED <<gmaVars, clVars, stVars, poVars>>)
    \/ (CheckFile /\ UNCHANGED <<gmaVars, clVars, stVars, poVars>>)
    \/ (EndpointsExhausted /\ UNCHANGED <<gmaVars, clVars, stVars, poVars>>)
    \/ (ReturnSuccess /\ UNCHANGED <<gmaVars, clVars, stVars, poVars>>)
SpeechSpec == SpeechSpecInit /\ [][SpeechNext]_vars

AttemptsOn(index) == {k \in DOMAIN sp_calls : sp_calls[k]["page"] = index}
Synthesized(index) ==
    LET name == <<"p">> \o IntToStr(index + 1) \o <<".", "m", "p", "3">>
    IN  name \in DOMAIN sp_files /\ sp_files[name]
Returned(status) == sp_pc = "done" /\ sp_result["status"] = status

\* Page index n has failed on all endpoints: the loop over the endpoints
\* ended without success while the page loop stood at n.
FailedOnAll(index) ==
    sp_pc \in {"endpoint", "done"} /\ sp_endpoint > Endpoints /\ sp_idx = index

\* C22: the pages are processed in index order, blank pages are skipped and
\* the output of page index i is named p(i+1).mp3; once a page has failed on
\* all endpoints no later page is synthesized and the result has status
\* "failed"; a result with status "success" is returned only if every
\* non-blank page was synthesized to a non-empty file.
C22_SpeechFailFast ==
    /\ \A j, k \in DOMAIN sp_calls :
           j < k => sp_calls[j]["page"] <= sp_calls[k]["page"]
    /\ \A k \in DOMAIN sp_calls :
           /\ ~Blank(sp_pages[sp_calls[k]["page"] + 1])
           /\ sp_calls[k]["file"] =
                  <<"p">> \o IntToStr(sp_calls[k]["page"] + 1) \o <<".", "m", "p", "3">>
    /\ \A n \in 0..(Len(sp_pages) - 1) :
           /\ Cardinality(AttemptsOn(n)) <= Endpoints
           /\ AttemptsOn(n) # {} =>
                  \A m \in 0..(n - 1) : ~Blank(sp_pages[m + 1]) => Synthesized(m)
           /\ FailedOnAll(n) =>
                  /\ Cardinality(AttemptsOn(n)) = Endpoints
                  /\ \A m \in (n + 1)..(Len(sp_pages) - 1) : AttemptsOn(m) = {}
                  /\ sp_pc = "done" => Returned("failed")
    /\ Returned("success") =>
           \A n \in 0..(Len(sp_pages) - 1) :
               ~Blank(sp_pages[n + 1]) => (AttemptsOn(n) # {} /\ Synthesized(n))

\* A blank first page was skipped and the second page, p2.mp3, was
\* synthesized at its third endpoint, after the first endpoint had raised.
C22_Witness ==
    /\ Returned("success")
    /\ Len(sp_pages) = 2
    /\ Blank(sp_pages[1])
    /\ Cardinality(AttemptsOn(1)) = 3
    /\ sp_calls[1]["file"] = <<"p", "2", ".", "m", "p", "3">>
    /\ sp_last_error

\* The first page failed on all endpoints, nothing was tried for the second,
\* and the data of the first page reached p1.mp3 only after the file checks.
C22_WitnessFailed ==
    /\ Returned("failed")
    /\ Len(sp_pages) = 2
    /\ ~Blank(sp_pages[1]) /\ ~Blank(sp_pages[2])
    /\ Cardinality(AttemptsOn(0)) = 3
    /\ AttemptsOn(1) = {}
    /\ ~sp_last_error
    /\ Synthesized(0)

====
